---- MODULE Spec2Model ----
(***************************************************************************)
(* Battle simulation core of spcc: blocking, attack cycles, health and     *)
(* death, targeting, skills.  Every system of the ECS schedule is one      *)
(* action; a phase variable per subsystem keeps the declared order of the  *)
(* systems inside one frame.  Durations are integers in one time unit.     *)
(***************************************************************************)
EXTENDS Integers, Sequences, FiniteSets, TLC

\* ------------------------------------------------------------------ bounds
NumBlockables == 3      \* Blockable entities of the blocking scenario
MaxBlock == 2           \* largest ComputedStat<Block> the propagation yields
MaxPos == 2             \* ground-plane positions 0..MaxPos of a Blockable

MaxSwing == 2           \* frontswing, backswing given to AttackCycle::new: 1..MaxSwing
MaxInterval == 4        \* finite attack intervals 0..MaxInterval
MaxDelta == 2           \* Time::delta of one frame: 1..MaxDelta
MaxTicks == 3           \* frames the auto-attack systems are run for
MaxHpBound == 3         \* ComputedStat<MaxHp> ranges over 0..MaxHpBound
HpFloor == 4            \* hp is followed down to -HpFloor
RangeReach == 1         \* positions a Range polygon reaches around its actor
MaxEdits == 2           \* component changes made to the targeting scenario
MaxHatred == 1          \* Hatred ranges over 0..MaxHatred
MaxTargets == 2         \* Targeting.max_targets ranges over 0..MaxTargets
DeltaStep == 250        \* granularity of Time::delta in the skill scenario, ms
MaxDeltaSteps == 3      \* Time::delta is 0..MaxDeltaSteps steps
MaxSpSteps == 2         \* max_sp and initial sp, in steps of DeltaStep
MaxCharges == 2         \* OverflowBehavior::Charge(n), n in 1..MaxCharges
NumTiles == 6           \* tiles cached by the Grid, in two rows
MulDen == 2             \* the mul of a modifier is a multiple of 1/MulDen
MaxStatBase == 2        \* base stats 0..MaxStatBase (and around the cap of Res)
MaxStatAdd == 1         \* the add of a modifier: -MaxStatAdd..MaxStatAdd
MaxMods == 2            \* descendants with a modifier of the kind
MaxCheckpoints == 2     \* checkpoints of a Follower: 0..MaxCheckpoints
MaxAtk == 1             \* ComputedStat<Atk> of the attacker: 0..MaxAtk
MaxFinishEvents == 2    \* NavigationFinishEvents counted per target
MaxCoord == 2           \* Coordinates x, y: -MaxCoord..MaxCoord
MaxHeight == 2          \* heights given to Coordinates::local: 0..MaxHeight

None == 0               \* Option::None of an entity reference
DurationMax == 1000000  \* stands for Duration::MAX: larger than every other duration
U32Max == 2147483647    \* stands for u32::MAX (the largest integer TLC handles)

VARIABLES
    \* --- blocking.rs
    blocking,       \* Blocker.blocking: Vec<Entity> per blocker
    can_block,      \* Blocker.can_block
    blocked_by,     \* Blockable.blocked_by (None or a blocker)
    block_stat,     \* ComputedStat<stat::Block> per blocker
    bpos,           \* ground-plane position of each Blockable
    death_rx,       \* DeathEvents not yet read by disengage_dead_blockers
    bdead,          \* blockers whose DeathEvent was already sent (Dead marker)
    bphase,         \* next blocking system of the frame
    \* --- damage.rs AttackCycle (the variant with last_elapsed)
    dcycle,         \* the AttackCycle component
    dinterval,      \* interval computed from AtkInterval and Aspd (fixed)
    \* --- auto_attack.rs AttackCycle and Melee
    acycle,         \* the AttackCycle component
    melee_in_frontswing, \* Melee.in_frontswing
    ainterval,      \* interval computed from AtkInterval and Aspd
    atargets,       \* Targets.len() of the attacker
    aphase,         \* next auto-attack system of the frame
    aticks,         \* history: frames run so far
    hit_ticks,      \* history: frames in which do_melee_auto_attack sent damage
    crossings,      \* history: frontswing boundaries the cycle's time crossed
    atk_stat,       \* ComputedStat<stat::Atk> of the attacker
    damage_type,    \* Melee.damage_type
    damage_tx,      \* DamageReceivedEvents sent by the last do_melee_auto_attack
    \* --- damage.rs Health, Dead, DeathEvent (one entity)
    hp,             \* Health.hp, an f32: [k: "num" | "nan" | "pinf" | "ninf", v]
    max_hp,         \* Health.max_hp
    maxhp_stat,     \* ComputedStat<stat::MaxHp>
    maxhp_changed,  \* Changed<ComputedStat<stat::MaxHp>> not yet seen
    dead,           \* the entity carries the Dead marker
    death_events,   \* history: DeathEvents sent for the entity
    life,           \* history: what the death-detection passes saw, see SeenByPass
    hlast,          \* history: the last operation on Health and its argument
    \* --- targeting/mod.rs, targeting/priority.rs, Hostility
    hostility,      \* Hostility of each entity, "Absent" without the component
    hatred,         \* Hatred of each entity
    visible,        \* Stealth.visible
    max_targets,    \* Targeting.max_targets
    has_range,      \* the entity carries a Range
    targeting_tree, \* TargetingTree, as the sequence its iteration yields
    targets,        \* Targets of each entity
    tphase,         \* next targeting system of the frame
    tedits,         \* history: component changes made so far
    search_prior,   \* history: Targets before the last search_targets
    search_twin,    \* history: result of a second run from the same state
    search_rerun,   \* history: result of search_targets run on its own output
    tdead,          \* the entity carries the Dead marker
    \* --- skill.rs (one skill entity)
    skill,          \* Skill: [sp, max_sp, sp_lockout, overflow]
    lockout_timer,  \* SkillLockoutTimer
    increase_with_time, \* the skill carries IncreaseWithTime
    min_targets,    \* AutoSkillActivation.min_targets
    skill_targets,  \* Targets.len() of the skill entity
    take_rx,        \* SkillActivationEvents unread by take_used_sp
    lockout_rx,     \* SkillActivationEvents unread by start_lockout_timer
    sdelta,         \* Time::delta() of the frame
    sphase,         \* next skill system (or system group) of the frame
    sdone,          \* systems of the unordered group that already ran
    deactivation_sent, \* a SkillDeactivationEvent was sent this frame
    tick_ready,     \* history: activate_auto_skills found the skill ready this frame
    tick_events,    \* history: SkillActivationEvents sent this frame
    since_activation, \* history: time ticked since the lockout window opened
    window_events,  \* history: SkillActivationEvents sent in the current window
    \* --- tile_map/nav.rs, tile_map/mod.rs
    grid_solid,     \* coordinates of the Grid's tiles that are solid
    pf,             \* a find_path call: status, start, end, open, memory, path
    nav_pos,        \* translation of the navigating entity
    nav_target,     \* Nav.target
    nav_changed,    \* Ref<Nav>::is_changed()
    cpath,          \* CalculatedPath.path
    waypoints,      \* CalculatedPath.waypoints
    nphase,         \* next navigation system of the frame
    nlast,          \* history: outcome of the last compute_navigation
    nav_active,     \* Nav.active, as disable_nav_for_blocking writes it
    nav_blocked,    \* Blockable::is_blocked() of the navigating entity
    blockable_changed, \* Changed<Blockable> not yet seen by disable_nav_for_blocking
    finish_sent,    \* history: NavigationFinishEvents sent since Nav::set_target
    \* --- stats/mod.rs, stats/stat.rs (one entity, one stat kind)
    stat_kind,      \* the kind K of the stat
    stat_base,      \* the base stat K of the entity
    stat_mods,      \* the K::Modifier components of its descendants, in hierarchy order
    stat_computed,  \* ComputedStat<K>
    stat_passed,    \* history: a propagation pass ran after the last change
    \* --- the Update schedule built by the plugins
    sched_ran,      \* systems that have run in the current frame
    sched_last,     \* the system that ran last in the current frame
    \* --- battle/path.rs
    follower_len,   \* Follower.checkpoints.len()
    follower_idx,   \* Follower.current_idx
    follower_added, \* Added<Follower> not yet seen by start_followers
    follower_target,\* the checkpoint Nav::set_target was last called with
    navigating,     \* the entity has waypoints left
    finish_rx,      \* NavigationFinishEvents unread by update_followers_navigation
    checkpoint_events,\* history: CheckpointPassedEvents sent per Follower
    follower_passes,\* history: advances made per Follower
    \* --- battle/blocking.rs: one Blockable with an AttackCycle
    rc_blocked_by,  \* Blockable.blocked_by
    rc_lists,       \* the Blockers whose blocking list holds the Blockable
    rc_can_block,   \* Blocker.can_block
    rc_death_rx,    \* Blockers with a DeathEvent unread by disengage_dead_blockers
    rc_changed,     \* Changed<Blockable> not yet seen by reset_attack_cycles
    rc_value_changed,\* history: blocked_by took another value since the last reset_attack_cycles
    rc_elapsed,     \* AttackCycle.elapsed() of the Blockable
    rc_reset,       \* history: the last reset_attack_cycles reset the cycle
    rc_ran,         \* blocking systems that have run in the current frame
    \* --- tile coordinates round trip
    rt_c,           \* a Coordinates value
    rt_height,      \* the height given to local
    rt_local,       \* c.local(height), or NoCoord before it is taken
    rt_back         \* from_local of rt_local, or NoCoord before it is taken

blockingVars == <<blocking, can_block, blocked_by, block_stat, bpos, death_rx, bdead, bphase>>
dcycleVars == <<dcycle, dinterval>>
attackVars == <<acycle, melee_in_frontswing, ainterval, atargets, aphase, aticks, hit_ticks, crossings,
                atk_stat, damage_type, damage_tx>>

healthVars == <<hp, max_hp, maxhp_stat, maxhp_changed, dead, death_events, life, hlast>>

targetingVars == <<hostility, hatred, visible, max_targets, has_range, targeting_tree,
                   targets, tphase, tedits, search_prior, search_twin, search_rerun, tdead>>
skillVars == <<skill, lockout_timer, increase_with_time, min_targets, skill_targets,
               take_rx, lockout_rx, sdelta, sphase, sdone, deactivation_sent,
               tick_ready, tick_events, since_activation, window_events>>

navVars == <<grid_solid, pf, nav_pos, nav_target, nav_changed, cpath, waypoints,
             nphase, nlast, nav_active, nav_blocked, blockable_changed, finish_sent>>

statVars == <<stat_kind, stat_base, stat_mods, stat_computed, stat_passed>>

schedVars == <<sched_ran, sched_last>>

followerVars == <<follower_len, follower_idx, follower_added, follower_target, navigating, finish_rx, checkpoint_events, follower_passes>>

resetVars == <<rc_blocked_by, rc_lists, rc_can_block, rc_death_rx, rc_changed, rc_value_changed, rc_elapsed, rc_reset, rc_ran>>

coordVars == <<rt_c, rt_height, rt_local, rt_back>>

vars == <<blockingVars, dcycleVars, attackVars, healthVars, targetingVars, skillVars,
          navVars,
          statVars,
          schedVars,
          followerVars,
          resetVars,
          coordVars>>

notBlocking == <<dcycleVars, attackVars, healthVars, targetingVars, skillVars, navVars, statVars, schedVars, followerVars, resetVars, coordVars>>
notDcycle == <<blockingVars, attackVars, healthVars, targetingVars, skillVars, navVars, statVars, schedVars, followerVars, resetVars, coordVars>>
notAttack == <<blockingVars, dcycleVars, healthVars, targetingVars, skillVars, navVars, statVars, schedVars, followerVars, resetVars, coordVars>>
notHealth == <<blockingVars, dcycleVars, attackVars, targetingVars, skillVars, navVars, statVars, schedVars, followerVars, resetVars, coordVars>>
notTargeting == <<blockingVars, dcycleVars, attackVars, healthVars, skillVars, navVars, statVars, schedVars, followerVars, resetVars, coordVars>>
notSkill == <<blockingVars, dcycleVars, attackVars, healthVars, targetingVars, navVars, statVars, schedVars, followerVars, resetVars, coordVars>>
notNav == <<blockingVars, dcycleVars, attackVars, healthVars, targetingVars, skillVars, statVars, schedVars, followerVars, resetVars, coordVars>>
notStat == <<blockingVars, dcycleVars, attackVars, healthVars, targetingVars, skillVars, navVars, schedVars, followerVars, resetVars, coordVars>>
notSched == <<blockingVars, dcycleVars, attackVars, healthVars, targetingVars, skillVars, navVars, statVars, followerVars, resetVars, coordVars>>
notFollower == <<blockingVars, dcycleVars, attackVars, healthVars, targetingVars, skillVars, navVars, statVars, schedVars, resetVars, coordVars>>
notReset == <<blockingVars, dcycleVars, attackVars, healthVars, targetingVars, skillVars, navVars, statVars, schedVars, followerVars, coordVars>>
notCoord == <<blockingVars, dcycleVars, attackVars, healthVars, targetingVars, skillVars, navVars, statVars, schedVars, followerVars, resetVars>>

\* =================================================================
\* Blocking (src/src/battle/blocking.rs)
\* =================================================================
Blockers == {1, 2}
Blockables == 11..(10 + NumBlockables)

\* Query iteration order: ascending entity id.
BlockerOrder == <<1, 2>>
BlockableOrder == [i \in 1..NumBlockables |-> 10 + i]

\* Blockers stand at fixed tiles; a Blockable walks between them.
BlockerPos(b) == IF b = 1 THEN 0 ELSE MaxPos
BlockerRadius == 50     \* OperatorBundle: BoundingCircle::new(0.5), in 1/100 tile
BlockableRadius == 15   \* EnemyBundle: BoundingCircle::new(0.15), in 1/100 tile

Abs(x) == IF x < 0 THEN -x ELSE x

\* distance <= min_distance, blocking.rs:149-153
Overlaps(e, b) ==
    LET min_distance == BlockableRadius + BlockerRadius
        \* positions are spaced one blocker radius (half a tile) apart
        distance == BlockerRadius * Abs(bpos[e] - BlockerPos(b))
    IN distance <= min_distance

\* One iteration of the inner loop of start_blocking for blockable e, over
\* the remaining blockers bs; st = [blocking, blocked_by].
RECURSIVE ScanBlockers(_, _, _)
ScanBlockers(st, e, bs) ==
    IF bs = <<>> THEN st
    ELSE LET b == Head(bs)
             take == /\ can_block[b]
                     /\ Overlaps(e, b)
                     /\ Len(st.blocking[b]) < block_stat[b]
             st2 == IF take
                    THEN [blocking |-> [st.blocking EXCEPT ![b] = Append(@, e)],
                          blocked_by |-> [st.blocked_by EXCEPT ![e] = b]]
                    ELSE st
         IN ScanBlockers(st2, e, Tail(bs))

\* The outer loop of start_blocking over the remaining blockables es.
RECURSIVE ScanBlockables(_, _)
ScanBlockables(st, es) ==
    IF es = <<>> THEN st
    ELSE LET e == Head(es)
             st2 == IF st.blocked_by[e] # None THEN st
                    ELSE ScanBlockers(st, e, BlockerOrder)
         IN ScanBlockables(st2, Tail(es))

\* system start_blocking
start_blocking ==
    /\ bphase = "start_blocking"
    /\ LET st == ScanBlockables([blocking |-> blocking, blocked_by |-> blocked_by],
                                BlockableOrder)
       IN /\ blocking' = st.blocking
          /\ blocked_by' = st.blocked_by
    /\ bphase' = "disengage_dead_blockers"
    /\ UNCHANGED <<can_block, block_stat, bpos, death_rx, bdead>>
    /\ UNCHANGED notBlocking

\* blockable.blocked_by = None for every entity of the list es
RECURSIVE ClearBlockees(_, _)
ClearBlockees(bb, es) ==
    IF es = <<>> THEN bb
    ELSE ClearBlockees([bb EXCEPT ![Head(es)] = None], Tail(es))

\* The loop of disengage_dead_blockers over the unread death events evs;
\* st = [blocking, blocked_by, can_block].
RECURSIVE Disengage(_, _)
Disengage(st, evs) ==
    IF evs = <<>> THEN st
    ELSE LET b == Head(evs)
             st2 == IF b \notin Blockers THEN st
                    ELSE [blocking |-> [st.blocking EXCEPT ![b] = <<>>],
                          blocked_by |-> ClearBlockees(st.blocked_by, st.blocking[b]),
                          can_block |-> [st.can_block EXCEPT ![b] = FALSE]]
         IN Disengage(st2, Tail(evs))

\* Mutant of disengage_dead_blockers: can_block is left as it was.
disengage_dead_blockers_still_blocking ==
    /\ bphase = "disengage_dead_blockers"
    /\ LET st == Disengage([blocking |-> blocking, blocked_by |-> blocked_by,
                            can_block |-> can_block], death_rx)
       IN /\ blocking' = st.blocking
          /\ blocked_by' = st.blocked_by
    /\ death_rx' = <<>>
    /\ bphase' = "start_blocking"
    /\ UNCHANGED <<can_block, block_stat, bpos, bdead>>
    /\ UNCHANGED notBlocking

\* system disengage_dead_blockers (after start_blocking)
disengage_dead_blockers ==
    /\ bphase = "disengage_dead_blockers"
    /\ LET st == Disengage([blocking |-> blocking, blocked_by |-> blocked_by,
                            can_block |-> can_block], death_rx)
       IN /\ blocking' = st.blocking
          /\ blocked_by' = st.blocked_by
          /\ can_block' = st.can_block
    /\ death_rx' = <<>>
    /\ bphase' = "start_blocking"
    /\ UNCHANGED <<block_stat, bpos, bdead>>
    /\ UNCHANGED notBlocking

\* Between two frames: steering moves an unblocked Blockable (Nav.active).
MoveBlockable ==
    /\ bphase = "start_blocking"
    /\ \E e \in Blockables, p \in 0..MaxPos :
          /\ blocked_by[e] = None
          /\ p # bpos[e]
          /\ bpos' = [bpos EXCEPT ![e] = p]
    /\ UNCHANGED <<blocking, can_block, blocked_by, block_stat, death_rx, bdead, bphase>>
    /\ UNCHANGED notBlocking

\* Between two frames: propagate_stat::<Block> writes a changed computed stat
\* (a Modifier<Block> was added to or removed from a descendant).
PropagateBlockStat ==
    /\ bphase = "start_blocking"
    /\ \E b \in Blockers, v \in 0..MaxBlock :
          /\ v # block_stat[b]
          /\ block_stat' = [block_stat EXCEPT ![b] = v]
    /\ UNCHANGED <<blocking, can_block, blocked_by, bpos, death_rx, bdead, bphase>>
    /\ UNCHANGED notBlocking

\* Between two frames (PostUpdate): send_death_event sends the DeathEvent of a
\* blocker whose hp fell to 0; the Dead marker keeps it from being sent again.
BlockerDeathEvent ==
    /\ bphase = "start_blocking"
    /\ \E b \in Blockers :
          /\ ~bdead[b]
          /\ bdead' = [bdead EXCEPT ![b] = TRUE]
          /\ death_rx' = Append(death_rx, b)
    /\ UNCHANGED <<blocking, can_block, blocked_by, block_stat, bpos, bphase>>
    /\ UNCHANGED notBlocking

BlockingInit ==
    /\ blocking = [b \in Blockers |-> <<>>]
    /\ can_block = [b \in Blockers |-> TRUE]
    /\ blocked_by = [e \in Blockables |-> None]
    /\ block_stat = [b \in Blockers |-> MaxBlock]
    /\ bpos \in [Blockables -> 0..MaxPos]
    /\ death_rx = <<>>
    /\ bdead = [b \in Blockers |-> FALSE]
    /\ bphase = "start_blocking"

BlockingNext ==
    \/ start_blocking
    \/ disengage_dead_blockers
    \/ MoveBlockable
    \/ PropagateBlockStat
    \/ BlockerDeathEvent



\* =================================================================
\* The engine's Timer, as the components use it: Timer::new, tick,
\* set_elapsed, reset, finished, just_finished, times_finished_this_tick.
\* =================================================================
TimerNew(duration, mode) ==
    [duration |-> duration, mode |-> mode, elapsed |-> 0,
     finished |-> FALSE, times_finished |-> 0]

\* Timer::tick(delta).  A finished Once timer stays as it is; a Repeating
\* timer wraps and counts its completions (u32::MAX completions and elapsed
\* zero for a zero duration).
TimerTick(t, delta) ==
    IF t.mode = "Once" /\ t.finished
    THEN [t EXCEPT !.times_finished = 0]
    ELSE LET e == t.elapsed + delta
         IN IF e >= t.duration
            THEN IF t.mode = "Repeating"
                 THEN LET n == IF t.duration = 0 THEN U32Max ELSE e \div t.duration
                      IN [t EXCEPT !.finished = TRUE,
                                   !.times_finished = n,
                                   !.elapsed = IF t.duration = 0 THEN 0
                                                ELSE e - t.duration * n]
                 ELSE [t EXCEPT !.finished = TRUE,
                                !.times_finished = 1,
                                !.elapsed = t.duration]
            ELSE [t EXCEPT !.finished = FALSE,
                           !.times_finished = 0,
                           !.elapsed = e]

TimerSetElapsed(t, e) == [t EXCEPT !.elapsed = e]
TimerReset(t) == [t EXCEPT !.elapsed = 0, !.finished = FALSE, !.times_finished = 0]
TimerJustFinished(t) == t.times_finished > 0

\* Duration::mul_f64(interval.div_duration_f64(duration)): the product is
\* cut to the time unit (Duration::from_secs_f64 truncates).
MulRatio(d, num, den) == (d * num) \div den

\* =================================================================
\* AttackCycle of src/src/battle/auto_attack.rs
\* =================================================================
\* AttackCycle::new
AttackCycleNew(frontswing, backswing) ==
    [timer |-> TimerNew(DurationMax, "Repeating"),
     standby |-> FALSE,
     scaled_frontswing |-> frontswing,
     scaled_backswing |-> backswing,
     frontswing |-> frontswing,
     backswing |-> backswing]

\* Mutant of scale_swing_interval: the backswing is left unscaled.
scale_swing_interval_front_only(c) ==
    LET total == c.frontswing + c.backswing
        interval == c.timer.duration
    IN IF total = 0 THEN c
       ELSE IF total < interval
       THEN [c EXCEPT !.scaled_frontswing = c.frontswing,
                      !.scaled_backswing = c.backswing]
       ELSE [c EXCEPT !.scaled_frontswing = MulRatio(interval, c.frontswing, total),
                      !.scaled_backswing = c.backswing]

\* AttackCycle::scale_swing_interval (the same text in damage.rs:226-246)
scale_swing_interval(c) ==
    LET total == c.frontswing + c.backswing
        interval == c.timer.duration
    IN IF total = 0 THEN c
       ELSE IF total < interval
       THEN [c EXCEPT !.scaled_frontswing = c.frontswing,
                      !.scaled_backswing = c.backswing]
       ELSE [c EXCEPT !.scaled_frontswing = MulRatio(interval, c.frontswing, total),
                      !.scaled_backswing = MulRatio(interval, c.backswing, total)]

\* Mutant of set_interval: the new timer starts at elapsed 0.
set_interval_resetting(c, interval) ==
    IF c.timer.duration = interval THEN c
    ELSE IF c.timer.duration = 0
    THEN [c EXCEPT !.timer = TimerSetElapsed(TimerNew(interval, "Repeating"), interval)]
    ELSE scale_swing_interval([c EXCEPT !.timer = TimerNew(interval, "Repeating")])

\* AttackCycle::set_interval
set_interval(c, interval) ==
    IF c.timer.duration = interval THEN c
    ELSE IF c.timer.duration = 0
    THEN [c EXCEPT !.timer = TimerSetElapsed(TimerNew(interval, "Repeating"), interval)]
    ELSE LET elapsed == MulRatio(c.timer.elapsed, interval, c.timer.duration)
         IN scale_swing_interval(
                [c EXCEPT !.timer = TimerSetElapsed(TimerNew(interval, "Repeating"), elapsed)])

\* AttackCycle::set_standby
set_standby(c, standby) == [c EXCEPT !.standby = standby]

\* AttackCycle::in_frontswing
in_frontswing(c) == c.timer.elapsed < c.scaled_frontswing

\* Mutant of tick: standby is ignored, the timer always runs.
tick_ignoring_standby(c, delta) ==
    [c EXCEPT !.timer = TimerTick(c.timer, delta)]

\* AttackCycle::tick
tick(c, delta) ==
    IF c.standby /\ c.timer.elapsed = 0 THEN c
    ELSE LET t == TimerTick(c.timer, delta)
         IN IF c.standby /\ (TimerJustFinished(t) \/ t.elapsed < c.scaled_frontswing)
            THEN [c EXCEPT !.timer = TimerSetElapsed(t, 0)]
            ELSE [c EXCEPT !.timer = t]

\* History only: how many frontswing boundaries (elapsed = scaled_frontswing
\* of some cycle) the clock of cycle c passes when it advances by delta.
CrossCount(c, delta) ==
    LET e == c.timer.elapsed
        d == c.timer.duration
        sf == c.scaled_frontswing
    IN IF d = 0 \/ (c.standby /\ e = 0) THEN 0
       ELSE Cardinality({k \in 0..((e + delta) \div d) :
                            e < sf + k * d /\ sf + k * d <= e + delta})

AIntervals == (0..MaxInterval) \cup {DurationMax}

\* DamageType
DamageTypes == {"Physical", "Arts", "True"}

\* DamageReceivedEvent::new(target).with_type(t).with_damage(damage)
DamageReceivedEvent(target, t, damage) ==
    [entity |-> target, damage_type |-> t, damage |-> damage]

\* Targets of the attacker: its first atargets entries
AttackerTargets == [i \in 1..MaxTargets |-> 10 + i]

\* system standby_with_no_targets
standby_with_no_targets ==
    /\ aphase = "standby_with_no_targets"
    /\ LET has_targets == atargets > 0
       IN acycle' = set_standby(acycle, ~has_targets)
    /\ aphase' = "tick_attack_cycle_timers"
    /\ UNCHANGED <<melee_in_frontswing, ainterval, atargets, aticks, hit_ticks, crossings,
                   atk_stat, damage_type, damage_tx>>
    /\ UNCHANGED notAttack

\* system tick_attack_cycle_timers: set_interval, then tick(time.delta())
tick_attack_cycle_timers ==
    /\ aphase = "tick_attack_cycle_timers"
    /\ aticks < MaxTicks
    /\ \E delta \in 1..MaxDelta :
          LET c == set_interval(acycle, ainterval)
          IN /\ acycle' = tick(c, delta)
             /\ crossings' = crossings + CrossCount(c, delta)
    /\ aphase' = "do_melee_auto_attack"
    /\ UNCHANGED <<melee_in_frontswing, ainterval, atargets, aticks, hit_ticks,
                   atk_stat, damage_type, damage_tx>>
    /\ UNCHANGED notAttack

\* Mutant of do_melee_auto_attack: damage is sent in every frame that ends
\* outside the frontswing.
do_melee_auto_attack_every_frame ==
    /\ aphase = "do_melee_auto_attack"
    /\ LET attack == ~in_frontswing(acycle)
           sent == IF attack THEN atargets ELSE 0
       IN /\ hit_ticks' = hit_ticks + (IF sent > 0 THEN 1 ELSE 0)
          /\ damage_tx' = [i \in 1..sent |->
                              DamageReceivedEvent(AttackerTargets[i], damage_type,
                                                  atk_stat)]
    /\ melee_in_frontswing' = in_frontswing(acycle)
    /\ aticks' = aticks + 1
    /\ aphase' = "standby_with_no_targets"
    /\ UNCHANGED <<acycle, ainterval, atargets, crossings,
                   atk_stat, damage_type>>
    /\ UNCHANGED notAttack

\* system do_melee_auto_attack (the attacker has an Atk stat): one
\* DamageReceivedEvent per target when the frontswing was left this frame.
do_melee_auto_attack ==
    /\ aphase = "do_melee_auto_attack"
    /\ LET attack == ~in_frontswing(acycle) /\ melee_in_frontswing
           sent == IF attack THEN atargets ELSE 0
       IN /\ hit_ticks' = hit_ticks + (IF sent > 0 THEN 1 ELSE 0)
          /\ damage_tx' = [i \in 1..sent |->
                              DamageReceivedEvent(AttackerTargets[i], damage_type,
                                                  atk_stat)]
    /\ melee_in_frontswing' = in_frontswing(acycle)
    /\ aticks' = aticks + 1
    /\ aphase' = "standby_with_no_targets"
    /\ UNCHANGED <<acycle, ainterval, atargets, crossings,
                   atk_stat, damage_type>>
    /\ UNCHANGED notAttack

\* Between two frames: the computed AtkInterval or Aspd changed.
ChangeAttackInterval ==
    /\ aphase = "standby_with_no_targets"
    /\ \E i \in AIntervals \ {ainterval} : ainterval' = i
    /\ hit_ticks' = 0 /\ crossings' = 0
    /\ UNCHANGED <<acycle, melee_in_frontswing, atargets, aphase, aticks,
                   atk_stat, damage_type, damage_tx>>
    /\ UNCHANGED notAttack

\* Between two frames: targeting found a target, or none any more.
ChangeTargets ==
    /\ aphase = "standby_with_no_targets"
    /\ \E n \in (0..MaxTargets) \ {atargets} : atargets' = n
    /\ hit_ticks' = 0 /\ crossings' = 0
    /\ UNCHANGED <<acycle, melee_in_frontswing, ainterval, aphase, aticks,
                   atk_stat, damage_type, damage_tx>>
    /\ UNCHANGED notAttack

AttackInit ==
    /\ \E f \in 1..MaxSwing, b \in 1..MaxSwing : acycle = AttackCycleNew(f, b)
    /\ melee_in_frontswing = FALSE
    /\ ainterval \in 1..MaxInterval
    /\ atargets = 1
    /\ aphase = "standby_with_no_targets"
    /\ aticks = 0
    /\ hit_ticks = 0
    /\ crossings = 0
    /\ atk_stat = MaxAtk
    /\ damage_type = "Physical"
    /\ damage_tx = <<>>

\* The attacker of the damage-event scenario: any damage type, any Atk
MeleeEventInit ==
    /\ \E f \in 1..MaxSwing, b \in 1..MaxSwing : acycle = AttackCycleNew(f, b)
    /\ melee_in_frontswing = FALSE
    /\ ainterval \in 1..MaxInterval
    /\ atargets = 1
    /\ aphase = "standby_with_no_targets"
    /\ aticks = 0
    /\ hit_ticks = 0
    /\ crossings = 0
    /\ atk_stat \in 0..MaxAtk
    /\ damage_type \in DamageTypes
    /\ damage_tx = <<>>

MeleeEventNext ==
    \/ standby_with_no_targets
    \/ tick_attack_cycle_timers
    \/ do_melee_auto_attack
    \/ ChangeTargets

MeleeNext ==
    \/ standby_with_no_targets
    \/ tick_attack_cycle_timers
    \/ do_melee_auto_attack

AttackNext ==
    \/ standby_with_no_targets
    \/ tick_attack_cycle_timers
    \/ do_melee_auto_attack
    \/ ChangeAttackInterval
    \/ ChangeTargets

\* The methods of AttackCycle called one at a time on a cycle that has a
\* finite interval: tick with a positive or a zero delta, set_standby,
\* set_interval.
TickPositive ==
    /\ \E delta \in 1..MaxDelta : acycle' = tick(acycle, delta)
    /\ UNCHANGED <<melee_in_frontswing, ainterval, atargets, aphase, aticks,
                   hit_ticks, crossings,
                   atk_stat, damage_type, damage_tx>>
    /\ UNCHANGED notAttack

TickZero ==
    /\ acycle' = tick(acycle, 0)
    /\ UNCHANGED <<melee_in_frontswing, ainterval, atargets, aphase, aticks,
                   hit_ticks, crossings,
                   atk_stat, damage_type, damage_tx>>
    /\ UNCHANGED notAttack

SetStandby ==
    /\ \E standby \in BOOLEAN : acycle' = set_standby(acycle, standby)
    /\ UNCHANGED <<melee_in_frontswing, ainterval, atargets, aphase, aticks,
                   hit_ticks, crossings,
                   atk_stat, damage_type, damage_tx>>
    /\ UNCHANGED notAttack

SetInterval ==
    /\ \E interval \in 0..MaxInterval :
          /\ acycle' = set_interval(acycle, interval)
          /\ ainterval' = interval
    /\ UNCHANGED <<melee_in_frontswing, atargets, aphase, aticks, hit_ticks, crossings,
                   atk_stat, damage_type, damage_tx>>
    /\ UNCHANGED notAttack

\* AttackCycle::new, then the first set_interval with a finite interval
StandbyInit ==
    /\ \E f \in 1..MaxSwing, b \in 1..MaxSwing, interval \in 0..MaxInterval :
          /\ acycle = set_interval(AttackCycleNew(f, b), interval)
          /\ ainterval = interval
    /\ melee_in_frontswing = FALSE
    /\ atargets = 1
    /\ aphase = "standby_with_no_targets"
    /\ aticks = 0
    /\ hit_ticks = 0
    /\ crossings = 0
    /\ atk_stat = MaxAtk
    /\ damage_type = "Physical"
    /\ damage_tx = <<>>

StandbyNext ==
    \/ TickPositive
    \/ TickZero
    \/ SetStandby
    \/ SetInterval

\* =================================================================
\* AttackCycle of src/src/battle/damage.rs (with last_elapsed)
\* =================================================================
damage_AttackCycleNew(frontswing, backswing) ==
    [timer |-> TimerNew(DurationMax, "Repeating"),
     standby |-> FALSE,
     last_elapsed |-> 0,
     scaled_frontswing |-> frontswing,
     scaled_backswing |-> backswing,
     frontswing |-> frontswing,
     backswing |-> backswing]

\* AttackCycle::set_interval (damage.rs), for a positive current interval
damage_set_interval(c, interval) ==
    IF c.timer.duration = interval THEN c
    ELSE LET elapsed == MulRatio(c.timer.elapsed, interval, c.timer.duration)
         IN scale_swing_interval(
                [c EXCEPT !.timer = TimerSetElapsed(TimerNew(interval, "Repeating"), elapsed)])

\* AttackCycle::tick (damage.rs)
damage_tick(c, delta) ==
    IF c.standby /\ c.timer.elapsed = 0 THEN c
    ELSE LET t == TimerTick(c.timer, delta)
             c1 == [c EXCEPT !.last_elapsed = c.timer.elapsed]
         IN IF c.standby /\ TimerJustFinished(t)
            THEN [c1 EXCEPT !.timer = TimerSetElapsed(t, 0)]
            ELSE [c1 EXCEPT !.timer = t]

\* u32::saturating_sub
SaturatingSub(a, b) == IF a >= b THEN a - b ELSE 0

\* AttackCycle::attacks_this_tick
attacks_this_tick(c) ==
    LET attack_finished == /\ c.last_elapsed < c.scaled_frontswing
                           /\ c.timer.elapsed >= c.scaled_frontswing
    IN SaturatingSub(c.timer.times_finished, 1) + (IF attack_finished THEN 1 ELSE 0)

\* system tick_attack_cycle_timers of damage.rs
damage_tick_attack_cycle_timers ==
    /\ \E delta \in 1..(2 * MaxInterval) :
          dcycle' = damage_tick(damage_set_interval(dcycle, dinterval), delta)
    /\ UNCHANGED dinterval
    /\ UNCHANGED notDcycle

\* A caller of AttackCycle::set_standby
damage_set_standby ==
    /\ \E standby \in BOOLEAN :
          /\ standby # dcycle.standby
          /\ dcycle' = [dcycle EXCEPT !.standby = standby]
    /\ UNCHANGED dinterval
    /\ UNCHANGED notDcycle

DcycleInit ==
    /\ \E f \in 1..MaxSwing, b \in 1..MaxSwing : dcycle = damage_AttackCycleNew(f, b)
    /\ dinterval \in 1..MaxInterval

DcycleNext ==
    \/ damage_tick_attack_cycle_timers
    \/ damage_set_standby

\* =================================================================
\* Health, Dead and DeathEvent (src/src/battle/damage.rs, src/src/effect.rs)
\* hp is an f32: a number of hp units, or NaN, or an infinity.  A quotient
\* is rounded toward zero to the hp unit.
\* =================================================================
Num(n) == [k |-> "num", v |-> n]
NaN == [k |-> "nan", v |-> 0]
PInf == [k |-> "pinf", v |-> 0]
NInf == [k |-> "ninf", v |-> 0]

Sign(x) == IF x.k = "pinf" THEN 1 ELSE IF x.k = "ninf" THEN -1
           ELSE IF x.v > 0 THEN 1 ELSE IF x.v < 0 THEN -1 ELSE 0
Inf(sign) == IF sign > 0 THEN PInf ELSE NInf

\* f32 comparison a <= b (false when either side is NaN)
FLe(a, b) ==
    IF a.k = "nan" \/ b.k = "nan" THEN FALSE
    ELSE IF a.k = "ninf" \/ b.k = "pinf" THEN TRUE
    ELSE IF a.k = "pinf" \/ b.k = "ninf" THEN FALSE
    ELSE a.v <= b.v

\* f32 comparison a > b (false when either side is NaN)
FGt(a, b) == a.k # "nan" /\ b.k # "nan" /\ ~FLe(a, b)

\* f32::min: the other operand when one is NaN
FMin(a, b) ==
    IF a.k = "nan" THEN b ELSE IF b.k = "nan" THEN a
    ELSE IF FLe(a, b) THEN a ELSE b

\* a - n for a number n
FSub(a, n) == IF a.k = "num" THEN Num(a.v - n) ELSE a

\* a * n for a number n >= 0
FMul(a, n) ==
    IF a.k = "nan" THEN NaN
    ELSE IF a.k = "num" THEN Num(a.v * n)
    ELSE IF n = 0 THEN NaN ELSE a

\* a / n for a number n >= 0
FDiv(a, n) ==
    IF a.k = "nan" THEN NaN
    ELSE IF a.k # "num" THEN a
    ELSE IF n = 0 THEN (IF a.v = 0 THEN NaN ELSE Inf(Sign(a)))
    ELSE Num(Sign(a) * (Abs(a.v) \div n))

\* Mutant of Health_set: the value is stored unclamped.
Health_set_unclamped(value, maxhp) == value

\* Health::set: self.hp = hp.min(self.max_hp)
Health_set(value, maxhp) == FMin(value, Num(maxhp))

\* detect_maxhp_changes: health.hp * max_hp.get() / health.max_hp
Rescale(h, new_max, old_max) == FDiv(FMul(h, new_max), old_max)

\* History only: what the death-detection passes saw so far.  0: never
\* hp <= 0; 1: hp <= 0; 2: after that hp > 0 again; 3: after that hp <= 0 again.
SeenByPass(l, depleted) ==
    IF depleted THEN (IF l = 0 THEN 1 ELSE IF l = 2 THEN 3 ELSE l)
    ELSE (IF l = 1 THEN 2 ELSE l)

HpInputs == (0 - 1)..(MaxHpBound + 1)

\* A caller of Health::set (damage consolidation, healing, revival)
HealthSet ==
    /\ \E v \in HpInputs :
          /\ hp' = Health_set(Num(v), max_hp)
          /\ hlast' = [op |-> "set", arg |-> v]
    /\ UNCHANGED <<max_hp, maxhp_stat, maxhp_changed, dead, death_events, life>>
    /\ UNCHANGED notHealth

\* system tick_hp_decay of effect.rs, when the decay timer finished:
\* health.set(current_hp - hp_decay.hp), with a decay of one hp unit
tick_hp_decay ==
    /\ FLe(Num(1 - HpFloor), hp) \/ hp.k = "nan"
    /\ hp' = Health_set(FSub(hp, 1), max_hp)
    /\ hlast' = [op |-> "decay", arg |-> 0]
    /\ UNCHANGED <<max_hp, maxhp_stat, maxhp_changed, dead, death_events, life>>
    /\ UNCHANGED notHealth

\* propagate_stat::<MaxHp> writes a changed computed stat (domain: min 0)
PropagateMaxHp ==
    /\ \E v \in 0..MaxHpBound :
          /\ v # maxhp_stat
          /\ maxhp_stat' = v
    /\ maxhp_changed' = TRUE
    /\ UNCHANGED <<hp, max_hp, dead, death_events, life, hlast>>
    /\ UNCHANGED notHealth

\* system detect_maxhp_changes (runs on Changed<ComputedStat<MaxHp>>)
detect_maxhp_changes ==
    /\ maxhp_changed
    /\ LET h == Rescale(hp, maxhp_stat, max_hp)
       IN /\ h.k = "num" => h.v >= 0 - HpFloor
          /\ hp' = h
    /\ max_hp' = maxhp_stat
    /\ maxhp_changed' = FALSE
    /\ hlast' = [op |-> "rescale", arg |-> 0]
    /\ UNCHANGED <<maxhp_stat, dead, death_events, life>>
    /\ UNCHANGED notHealth

\* Mutant of send_death_event: a Dead entity with hp > 0 loses the marker.
send_death_event_revives ==
    /\ LET depleted == FLe(hp, Num(0))
       IN /\ life' = SeenByPass(life, depleted)
          /\ IF ~dead /\ depleted
             THEN death_events' = death_events + 1 /\ dead' = TRUE
             ELSE /\ UNCHANGED death_events
                  /\ dead' = (dead /\ depleted)
    /\ UNCHANGED <<hp, max_hp, maxhp_stat, maxhp_changed, hlast>>
    /\ UNCHANGED notHealth

\* Mutant of send_death_event: the query lacks Without<Dead>.
send_death_event_unfiltered ==
    /\ LET depleted == FLe(hp, Num(0))
       IN /\ life' = SeenByPass(life, depleted)
          /\ IF depleted
             THEN death_events' = death_events + 1 /\ dead' = TRUE
             ELSE UNCHANGED <<death_events, dead>>
    /\ UNCHANGED <<hp, max_hp, maxhp_stat, maxhp_changed, hlast>>
    /\ UNCHANGED notHealth

\* system send_death_event: Query<(Entity, &Health), Without<Dead>>
send_death_event ==
    /\ LET depleted == FLe(hp, Num(0))
       IN /\ life' = SeenByPass(life, depleted)
          /\ IF ~dead /\ depleted
             THEN death_events' = death_events + 1 /\ dead' = TRUE
             ELSE UNCHANGED <<death_events, dead>>
    /\ UNCHANGED <<hp, max_hp, maxhp_stat, maxhp_changed, hlast>>
    /\ UNCHANGED notHealth

\* Health::new(max_hp), max_hp > 0, with the stat it was built from
HealthInit ==
    /\ max_hp \in 1..MaxHpBound
    /\ hp = Num(max_hp)
    /\ maxhp_stat = max_hp
    /\ maxhp_changed = FALSE
    /\ dead = FALSE
    /\ death_events = 0
    /\ life = 0
    /\ hlast = [op |-> "new", arg |-> 0]

HealthNext ==
    \/ HealthSet
    \/ tick_hp_decay
    \/ PropagateMaxHp
    \/ detect_maxhp_changes
    \/ send_death_event

\* =================================================================
\* Targeting (src/src/battle/targeting/mod.rs, targeting/priority.rs) and
\* Hostility (src/src/battle/mod.rs).  The actors are the entities of the
\* blocking scenario: operators (Blockers) and enemies (Blockables).
\* =================================================================
TEntities == Blockers \cup Blockables

\* Mutant of is_hostile_to: the arm (Friendly, Hostile) is missing.
is_hostile_to_one_sided(self, other) ==
    IF self = "Neutral" THEN TRUE
    ELSE IF other = "Neutral" THEN TRUE
    ELSE IF self = "Hostile" /\ other = "Friendly" THEN TRUE
    ELSE FALSE

\* Hostility::is_hostile_to: the match arms in their order
is_hostile_to(self, other) ==
    IF self = "Neutral" THEN TRUE
    ELSE IF other = "Neutral" THEN TRUE
    ELSE IF self = "Hostile" /\ other = "Friendly" THEN TRUE
    ELSE IF self = "Friendly" /\ other = "Hostile" THEN TRUE
    ELSE FALSE

\* Option<&Hostility>: copied().unwrap_or_default(), From<Option<Hostility>>
HostilityOf(e) == IF hostility[e] = "Absent" THEN "Neutral" ELSE hostility[e]

\* GlobalTransform translation and BoundingCircle radius of an entity
TPos(e) == IF e \in Blockers THEN BlockerPos(e) ELSE bpos[e]
Radius(e) == IF e \in Blockers THEN BlockerRadius ELSE BlockableRadius

\* intersection_test of the actor's Range (a polygon reaching RangeReach
\* positions around the actor) with the target's bounding circle
InRange(a, t) ==
    BlockerRadius * Abs(TPos(a) - TPos(t)) <= RangeReach * BlockerRadius + Radius(t)

\* Mutant of SortsBefore: equal hatred is ordered by ascending entity.
SortsBefore_entity_ascending(x, y) ==
    hatred[x] > hatred[y] \/ (hatred[x] = hatred[y] /\ x < y)

\* SortedEntity::cmp is Less: higher hatred first, then higher entity first
SortsBefore(x, y) ==
    hatred[x] > hatred[y] \/ (hatred[x] = hatred[y] /\ x > y)

\* TargetingTree::iter over the BTreeSet built from the set S of entities
RECURSIVE TreeOrder(_)
TreeOrder(S) ==
    IF S = {} THEN <<>>
    ELSE LET m == CHOOSE x \in S : \A y \in S \ {x} : SortsBefore(x, y)
         IN <<m>> \o TreeOrder(S \ {m})

\* Iterator::take(n)
Take(s, n) == IF n >= Len(s) THEN s ELSE SubSeq(s, 1, n)

\* system sort_targets: the tree is cleared and rebuilt from every Hatred
sort_targets ==
    /\ tphase = "sort_targets"
    /\ targeting_tree' = TreeOrder(TEntities)
    /\ tphase' = "clear_targets"
    /\ UNCHANGED <<hostility, hatred, visible, max_targets, has_range, targets,
                   tedits, search_prior, search_twin, search_rerun, tdead>>
    /\ UNCHANGED notTargeting

\* Mutant of clear_targets: the Targets of the previous frame are kept.
clear_targets_keeping ==
    /\ tphase = "clear_targets"
    /\ targets' = targets
    /\ tphase' = "priority_blocked_targets"
    /\ UNCHANGED <<hostility, hatred, visible, max_targets, has_range, targeting_tree,
                   tedits, search_prior, search_twin, search_rerun, tdead>>
    /\ UNCHANGED notTargeting

\* system clear_targets
clear_targets ==
    /\ tphase = "clear_targets"
    /\ targets' = [e \in TEntities |-> <<>>]
    /\ tphase' = "priority_blocked_targets"
    /\ UNCHANGED <<hostility, hatred, visible, max_targets, has_range, targeting_tree,
                   tedits, search_prior, search_twin, search_rerun, tdead>>
    /\ UNCHANGED notTargeting

\* priority_blocked_targets, loop body for the Blocker b with Targets found
BlockedTargetsFor(b, found) ==
    LET can_take == max_targets[b] - Len(found)
        hostile == SelectSeq(blocking[b],
                             LAMBDA e : is_hostile_to(HostilityOf(b), HostilityOf(e)))
    IN found \o Take(hostile, can_take)

\* system priority_blocked_targets
priority_blocked_targets ==
    /\ tphase = "priority_blocked_targets"
    /\ targets' = [e \in TEntities |->
                     IF e \in Blockers THEN BlockedTargetsFor(e, targets[e])
                     ELSE targets[e]]
    /\ tphase' = "priority_blocker_target"
    /\ UNCHANGED <<hostility, hatred, visible, max_targets, has_range, targeting_tree,
                   tedits, search_prior, search_twin, search_rerun, tdead>>
    /\ UNCHANGED notTargeting

\* priority_blocker_target, loop body for the Blockable e with Targets found
BlockerTargetFor(e, found) ==
    IF Len(found) >= max_targets[e] THEN found
    ELSE IF blocked_by[e] # None
            /\ is_hostile_to(HostilityOf(e), HostilityOf(blocked_by[e]))
    THEN Append(found, blocked_by[e])
    ELSE found

\* system priority_blocker_target
priority_blocker_target ==
    /\ tphase = "priority_blocker_target"
    /\ targets' = [e \in TEntities |->
                     IF e \in Blockables THEN BlockerTargetFor(e, targets[e])
                     ELSE targets[e]]
    /\ tphase' = "search_targets"
    /\ UNCHANGED <<hostility, hatred, visible, max_targets, has_range, targeting_tree,
                   tedits, search_prior, search_twin, search_rerun, tdead>>
    /\ UNCHANGED notTargeting

\* Mutant of SearchFor: the search results are appended to the Targets found.
SearchFor_extending(a, found) ==
    LET possible_targets ==
            SelectSeq(targeting_tree,
                      LAMBDA t : /\ visible[t]
                                 /\ is_hostile_to(HostilityOf(a), HostilityOf(t))
                                 /\ InRange(a, t))
    IN found \o Take(possible_targets, max_targets[a])

\* search_targets, loop body for the actor a with Targets found: the tree is
\* filtered (visible, hostile, in range), cut to max_targets and assigned.
SearchFor(a, found) ==
    LET possible_targets ==
            SelectSeq(targeting_tree,
                      LAMBDA t : /\ visible[t]
                                 /\ is_hostile_to(HostilityOf(a), HostilityOf(t))
                                 /\ InRange(a, t))
    IN Take(possible_targets, max_targets[a])

\* The loop of search_targets over the actors with a Range, in the query's
\* iteration order.
RECURSIVE SearchAll(_, _)
SearchAll(order, tg) ==
    IF order = <<>> THEN tg
    ELSE LET a == Head(order)
             tg2 == IF has_range[a] THEN [tg EXCEPT ![a] = SearchFor(a, tg[a])]
                    ELSE tg
         IN SearchAll(Tail(order), tg2)

\* Iteration orders of the targeting query: the engine fixes none.
RECURSIVE Ascending(_)
Ascending(S) ==
    IF S = {} THEN <<>>
    ELSE LET m == CHOOSE x \in S : \A y \in S : x <= y
         IN <<m>> \o Ascending(S \ {m})
Reverse(s) == [i \in 1..Len(s) |-> s[Len(s) + 1 - i]]
QueryOrders == {Ascending(TEntities), Reverse(Ascending(TEntities))}

\* system search_targets.  History: search_prior is Targets before the run,
\* search_twin the result of a second run from the same state (in the other
\* iteration order), search_rerun the result of running again on the output.
search_targets ==
    /\ tphase = "search_targets"
    /\ \E order \in QueryOrders :
          LET out == SearchAll(order, targets)
          IN /\ targets' = out
             /\ search_twin' = SearchAll(Reverse(order), targets)
             /\ search_rerun' = SearchAll(order, out)
    /\ search_prior' = targets
    /\ tphase' = "sort_targets"
    /\ UNCHANGED <<hostility, hatred, visible, max_targets, has_range, targeting_tree,
                   tedits, tdead>>
    /\ UNCHANGED notTargeting

\* Between two frames, at most MaxEdits times: a component of an entity is
\* replaced, inserted or removed.
SetHostility ==
    /\ tphase = "sort_targets" /\ tedits < MaxEdits
    /\ \E e \in TEntities, h \in {"Absent", "Neutral", "Hostile", "Friendly"} :
          /\ h # hostility[e]
          /\ hostility' = [hostility EXCEPT ![e] = h]
    /\ tedits' = tedits + 1
    /\ UNCHANGED <<hatred, visible, max_targets, has_range, targeting_tree, targets,
                   tphase, search_prior, search_twin, search_rerun, tdead>>
    /\ UNCHANGED notTargeting

SetHatred ==
    /\ tphase = "sort_targets" /\ tedits < MaxEdits
    /\ \E e \in TEntities, h \in 0..MaxHatred :
          /\ h # hatred[e]
          /\ hatred' = [hatred EXCEPT ![e] = h]
    /\ tedits' = tedits + 1
    /\ UNCHANGED <<hostility, visible, max_targets, has_range, targeting_tree, targets,
                   tphase, search_prior, search_twin, search_rerun, tdead>>
    /\ UNCHANGED notTargeting

SetStealth ==
    /\ tphase = "sort_targets" /\ tedits < MaxEdits
    /\ \E e \in TEntities : visible' = [visible EXCEPT ![e] = ~visible[e]]
    /\ tedits' = tedits + 1
    /\ UNCHANGED <<hostility, hatred, max_targets, has_range, targeting_tree, targets,
                   tphase, search_prior, search_twin, search_rerun, tdead>>
    /\ UNCHANGED notTargeting

SetMaxTargets ==
    /\ tphase = "sort_targets" /\ tedits < MaxEdits
    /\ \E e \in TEntities, n \in 0..MaxTargets :
          /\ n # max_targets[e]
          /\ max_targets' = [max_targets EXCEPT ![e] = n]
    /\ tedits' = tedits + 1
    /\ UNCHANGED <<hostility, hatred, visible, has_range, targeting_tree, targets,
                   tphase, search_prior, search_twin, search_rerun, tdead>>
    /\ UNCHANGED notTargeting

SetRange ==
    /\ tphase = "sort_targets" /\ tedits < MaxEdits
    /\ \E e \in TEntities : has_range' = [has_range EXCEPT ![e] = ~has_range[e]]
    /\ tedits' = tedits + 1
    /\ UNCHANGED <<hostility, hatred, visible, max_targets, targeting_tree, targets,
                   tphase, search_prior, search_twin, search_rerun, tdead>>
    /\ UNCHANGED notTargeting

\* OperatorBundle::default and EnemyBundle::default; operators carry a Range.
\* send_death_event (PostUpdate of the frame before) found hp <= 0 on an
\* entity: commands.entity(entity).insert(Dead).
InsertDead ==
    /\ tphase = "sort_targets" /\ tedits < MaxEdits
    /\ \E e \in TEntities :
          /\ ~tdead[e]
          /\ tdead' = [tdead EXCEPT ![e] = TRUE]
    /\ tedits' = tedits + 1
    /\ UNCHANGED <<hostility, hatred, visible, max_targets, has_range, targeting_tree,
                   targets, tphase, search_prior, search_twin, search_rerun>>
    /\ UNCHANGED notTargeting

TargetingInit ==
    /\ hostility = [e \in TEntities |-> IF e \in Blockers THEN "Friendly" ELSE "Hostile"]
    /\ hatred = [e \in TEntities |-> 0]
    /\ visible = [e \in TEntities |-> TRUE]
    /\ max_targets = [e \in TEntities |-> 1]
    /\ has_range = [e \in TEntities |-> e \in Blockers]
    /\ targeting_tree = <<>>
    /\ targets = [e \in TEntities |-> <<>>]
    /\ tphase = "sort_targets"
    /\ tedits = 0
    /\ search_prior = targets
    /\ search_twin = targets
    /\ search_rerun = targets
    /\ tdead = [e \in TEntities |-> FALSE]

TargetingNext ==
    \/ sort_targets
    \/ clear_targets
    \/ priority_blocked_targets
    \/ priority_blocker_target
    \/ search_targets
    \/ SetHostility
    \/ SetHatred
    \/ SetStealth
    \/ SetMaxTargets
    \/ SetRange
    \/ InsertDead

\* =================================================================
\* Skills (src/src/battle/skill.rs): one skill entity with Skill,
\* SkillLockoutTimer and AutoSkillActivation, no SkillDuration.  sp is
\* counted in 1/1000 sp, time in ms: IncreaseWithTime adds one unit per ms.
\* overflow is 0 for Capped and n for Charge(n).
\* =================================================================
BURST_SP_LOCKOUT_DURATION == 750

\* Time::delta() of a frame
SkillDeltas == {k * DeltaStep : k \in 0..MaxDeltaSteps}

Clamp(x, lo, hi) == IF x < lo THEN lo ELSE IF x > hi THEN hi ELSE x

\* Mutant of mutate: the sp_lockout gate is missing.
mutate_ungated(s, new_sp) ==
    LET cap == IF s.overflow = 0 THEN s.max_sp ELSE s.max_sp * s.overflow
    IN [s EXCEPT !.sp = Clamp(new_sp, 0, cap)]

\* Mutant of mutate: the result of the closure is stored without the clamp.
mutate_unclamped(s, new_sp) ==
    IF s.sp_lockout THEN s ELSE [s EXCEPT !.sp = new_sp]

\* Skill::mutate(f), with new_sp = f(self.sp)
mutate(s, new_sp) ==
    IF s.sp_lockout THEN s
    ELSE LET cap == IF s.overflow = 0 THEN s.max_sp ELSE s.max_sp * s.overflow
         IN [s EXCEPT !.sp = Clamp(new_sp, 0, cap)]

\* Skill::new(max_sp, overflow).with_initial_sp(initial_sp)
SkillNew(max_sp_, overflow_, initial_sp) ==
    mutate([sp |-> 0, max_sp |-> max_sp_, sp_lockout |-> FALSE, overflow |-> overflow_],
           initial_sp)

\* Skill::percentage() >= 1.0
PercentageFull(s) == s.sp >= s.max_sp

\* system deactivate_skills
deactivate_skills ==
    /\ sphase = "deactivate_skills"
    /\ deactivation_sent' = TimerJustFinished(lockout_timer)
    /\ tick_ready' = FALSE
    /\ tick_events' = 0
    /\ sphase' = "activate_auto_skills"
    /\ UNCHANGED <<skill, lockout_timer, increase_with_time, min_targets, skill_targets,
                   take_rx, lockout_rx, sdelta, sdone, since_activation, window_events>>
    /\ UNCHANGED notSkill

\* system activate_auto_skills.  History: tick_ready, tick_events; an event
\* sent 750 ms or more after the last window opened opens a new window.
activate_auto_skills ==
    /\ sphase = "activate_auto_skills"
    /\ LET send == PercentageFull(skill) /\ min_targets <= skill_targets
           opens == window_events = 0 \/ since_activation >= BURST_SP_LOCKOUT_DURATION
       IN /\ take_rx' = take_rx + (IF send THEN 1 ELSE 0)
          /\ lockout_rx' = lockout_rx + (IF send THEN 1 ELSE 0)
          /\ tick_ready' = send
          /\ tick_events' = (IF send THEN 1 ELSE 0)
          /\ window_events' = IF ~send THEN window_events
                              ELSE IF opens THEN 1
                              ELSE IF window_events < 2 THEN window_events + 1
                              ELSE window_events
          /\ since_activation' = IF send /\ opens THEN 0 ELSE since_activation
    /\ sphase' = "take_and_lockout"
    /\ UNCHANGED <<skill, lockout_timer, increase_with_time, min_targets, skill_targets,
                   sdelta, sdone, deactivation_sent>>
    /\ UNCHANGED notSkill

\* The loop of take_used_sp over n unread SkillActivationEvents
RECURSIVE TakeUsed(_, _)
TakeUsed(s, n) ==
    IF n = 0 THEN s ELSE TakeUsed(mutate(s, s.sp - s.max_sp), n - 1)

\* system take_used_sp (not ordered against start_lockout_timer)
take_used_sp ==
    /\ sphase = "take_and_lockout"
    /\ "take_used_sp" \notin sdone
    /\ skill' = TakeUsed(skill, take_rx)
    /\ take_rx' = 0
    /\ IF "start_lockout_timer" \in sdone
       THEN sdone' = {} /\ sphase' = "update_lockout_timer"
       ELSE sdone' = sdone \cup {"take_used_sp"} /\ UNCHANGED sphase
    /\ UNCHANGED <<lockout_timer, increase_with_time, min_targets, skill_targets,
                   lockout_rx, sdelta, deactivation_sent, tick_ready, tick_events,
                   since_activation, window_events>>
    /\ UNCHANGED notSkill

\* system start_lockout_timer (not ordered against take_used_sp):
\* SkillLockoutTimer::set(BURST_SP_LOCKOUT_DURATION) per unread event
start_lockout_timer ==
    /\ sphase = "take_and_lockout"
    /\ "start_lockout_timer" \notin sdone
    /\ lockout_timer' = IF lockout_rx > 0
                        THEN TimerNew(BURST_SP_LOCKOUT_DURATION, "Once")
                        ELSE lockout_timer
    /\ lockout_rx' = 0
    /\ IF "take_used_sp" \in sdone
       THEN sdone' = {} /\ sphase' = "update_lockout_timer"
       ELSE sdone' = sdone \cup {"start_lockout_timer"} /\ UNCHANGED sphase
    /\ UNCHANGED <<skill, increase_with_time, min_targets, skill_targets,
                   take_rx, sdelta, deactivation_sent, tick_ready, tick_events,
                   since_activation, window_events>>
    /\ UNCHANGED notSkill

\* system update_lockout_timer.  History: since_activation counts the time
\* ticked since the window's activation, up to the lockout duration.
update_lockout_timer ==
    /\ sphase = "update_lockout_timer"
    /\ \E delta \in SkillDeltas :
          LET t == TimerTick(lockout_timer, delta)
              since == since_activation + delta
          IN /\ lockout_timer' = t
             /\ skill' = [skill EXCEPT !.sp_lockout = ~t.finished]
             /\ sdelta' = delta
             /\ since_activation' = IF since > BURST_SP_LOCKOUT_DURATION
                                    THEN BURST_SP_LOCKOUT_DURATION ELSE since
    /\ sphase' = "increase_sp_with_time"
    /\ UNCHANGED <<increase_with_time, min_targets, skill_targets, take_rx, lockout_rx,
                   sdone, deactivation_sent, tick_ready, tick_events, window_events>>
    /\ UNCHANGED notSkill

\* system increase_sp_with_time (Query<&mut Skill, With<IncreaseWithTime>>)
increase_sp_with_time ==
    /\ sphase = "increase_sp_with_time"
    /\ skill' = IF increase_with_time THEN mutate(skill, skill.sp + sdelta) ELSE skill
    /\ sphase' = "deactivate_skills"
    /\ UNCHANGED <<lockout_timer, increase_with_time, min_targets, skill_targets,
                   take_rx, lockout_rx, sdelta, sdone, deactivation_sent, tick_ready,
                   tick_events, since_activation, window_events>>
    /\ UNCHANGED notSkill

\* Values a closure given to Skill::mutate returns: from below 0 to above
\* the largest cap.
SpValues == {k * DeltaStep : k \in (0 - 1)..(MaxSpSteps * MaxCharges + 1)}

\* Between two frames: another system calls Skill::mutate(|_| new_sp).
MutateSp ==
    /\ sphase = "deactivate_skills"
    /\ \E new_sp \in SpValues :
          /\ mutate(skill, new_sp) # skill
          /\ skill' = mutate(skill, new_sp)
    /\ UNCHANGED <<lockout_timer, increase_with_time, min_targets, skill_targets,
                   take_rx, lockout_rx, sdelta, sphase, sdone, deactivation_sent,
                   tick_ready, tick_events, since_activation, window_events>>
    /\ UNCHANGED notSkill

\* Between two frames: targeting gives the skill's Targets a new length.
ChangeSkillTargets ==
    /\ sphase = "deactivate_skills"
    /\ \E n \in 0..MaxTargets :
          /\ n # skill_targets
          /\ skill_targets' = n
    /\ UNCHANGED <<skill, lockout_timer, increase_with_time, min_targets,
                   take_rx, lockout_rx, sdelta, sphase, sdone, deactivation_sent,
                   tick_ready, tick_events, since_activation, window_events>>
    /\ UNCHANGED notSkill

\* SkillBundle with Skill::new(..).with_initial_sp(..), SkillLockoutTimer::default
SkillInit ==
    /\ \E m \in 1..MaxSpSteps, o \in 0..MaxCharges, i \in 0..MaxSpSteps :
          skill = SkillNew(m * DeltaStep, o, i * DeltaStep)
    /\ lockout_timer = TimerNew(0, "Once")
    /\ increase_with_time \in BOOLEAN
    /\ min_targets \in 0..1
    /\ skill_targets = 0
    /\ take_rx = 0
    /\ lockout_rx = 0
    /\ sdelta = 0
    /\ sphase = "deactivate_skills"
    /\ sdone = {}
    /\ deactivation_sent = FALSE
    /\ tick_ready = FALSE
    /\ tick_events = 0
    /\ since_activation = 0
    /\ window_events = 0

SkillNext ==
    \/ deactivate_skills
    \/ activate_auto_skills
    \/ take_used_sp
    \/ start_lockout_timer
    \/ update_lockout_timer
    \/ increase_sp_with_time
    \/ MutateSp
    \/ ChangeSkillTargets

\* =================================================================
\* Pathfinding (src/src/tile_map/nav.rs, src/src/tile_map/mod.rs).
\* Coordinates are pairs <<x, y>>.  The Grid caches NumTiles tiles laid out
\* in rows; a coordinate outside of them has no tile.
\* =================================================================
RowWidth == NumTiles \div 2
TileCoords == {<<i % RowWidth, i \div RowWidth>> : i \in 0..(NumTiles - 1)}
\* A coordinate the Grid has no tile for
OutCoord == <<0 - 1, 0>>
NoCoord == <<>>

\* CachedTile::is_solid of the tile, for a tile the Grid has
IsSolid(c) == c \in grid_solid

\* Mutant of Walkable: is_solid is not asked.
Walkable_any_tile(c) == c \in TileCoords

\* Grid::get(c) is Some(tile) and !tile.is_solid()
Walkable(c) == c \in TileCoords /\ ~IsSolid(c)

\* IVec2::distance_squared
distance_squared(a, b) ==
    (a[1] - b[1]) * (a[1] - b[1]) + (a[2] - b[2]) * (a[2] - b[2])

\* [IVec2::X, IVec2::Y, -IVec2::X, -IVec2::Y] added to pos
NeighborOrder(pos) ==
    << <<pos[1] + 1, pos[2]>>, <<pos[1], pos[2] + 1>>,
       <<pos[1] - 1, pos[2]>>, <<pos[1], pos[2] - 1>> >>

\* Every coordinate the search can name: the tiles, their neighbours and
\* the start and end given.
RECURSIVE SeqToSet(_)
SeqToSet(s) == IF s = <<>> THEN {} ELSE {Head(s)} \cup SeqToSet(Tail(s))
SearchCoords ==
    TileCoords \cup {OutCoord}
        \cup UNION {SeqToSet(NeighborOrder(c)) : c \in TileCoords \cup {OutCoord}}

\* find_path up to the loop: open holds the start node, memory is empty.
\* open is the BinaryHeap as the sequence of its positions, memory maps a
\* coordinate to its predecessor (NoCoord: no entry); pushes counts, per
\* coordinate, the pushes onto open (history).
PfBegin(start, end) ==
    [status |-> "searching", start |-> start, end |-> end,
     open |-> <<start>>,
     memory |-> [c \in SearchCoords |-> NoCoord],
     path |-> <<>>,
     pushes |-> [c \in SearchCoords |-> IF c = start THEN 1 ELSE 0]]

\* Mutant of VisitNeighbor: the start tile is not skipped.
VisitNeighbor_revisiting_start(s, cur, nb) ==
    IF s.memory[nb] # NoCoord THEN s
    ELSE IF Walkable(nb)
    THEN [s EXCEPT !.open = Append(@, nb),
                   !.memory[nb] = cur,
                   !.pushes[nb] = @ + 1]
    ELSE s

\* The body of the neighbour loop of find_path for neighbour nb of cur
VisitNeighbor(s, cur, nb) ==
    IF nb = s.start THEN s
    ELSE IF s.memory[nb] # NoCoord THEN s
    ELSE IF Walkable(nb)
    THEN [s EXCEPT !.open = Append(@, nb),
                   !.memory[nb] = cur,
                   !.pushes[nb] = @ + 1]
    ELSE s

RECURSIVE VisitNeighbors(_, _, _)
VisitNeighbors(s, cur, nbs) ==
    IF nbs = <<>> THEN s
    ELSE VisitNeighbors(VisitNeighbor(s, cur, Head(nbs)), cur, Tail(nbs))

\* The path reconstruction loop: predecessors are pushed while memory has
\* one for the last coordinate.  fuel bounds the iterations followed; a loop
\* that is still running when it is used up does not end.
RECURSIVE Reconstruct(_, _, _)
Reconstruct(memory, path, fuel) ==
    LET next == memory[path[Len(path)]]
    IN IF next = NoCoord THEN [ended |-> TRUE, path |-> path]
       ELSE IF fuel = 0 THEN [ended |-> FALSE, path |-> path]
       ELSE Reconstruct(memory, Append(path, next), fuel - 1)

RemoveAt(s, i) == SubSeq(s, 1, i - 1) \o SubSeq(s, i + 1, Len(s))

\* Positions of open that BinaryHeap::pop may return: Ord for GridNode puts
\* the least distance_squared on top, the order among equals is the heap's.
PopCandidates(s) ==
    {i \in 1..Len(s.open) :
        \A j \in 1..Len(s.open) :
            distance_squared(s.open[i], s.end) <= distance_squared(s.open[j], s.end)}

\* One iteration of the while loop of find_path, popping position i of open,
\* and the loop test that follows it.
Iterate(s, i) ==
    LET cur == s.open[i]
        popped == [s EXCEPT !.open = RemoveAt(s.open, i)]
    IN IF cur = s.end
       THEN LET r == Reconstruct(s.memory, <<cur>>, Cardinality(SearchCoords))
            IN IF r.ended
               THEN [popped EXCEPT !.status = "Ok", !.path = Reverse(r.path)]
               ELSE [popped EXCEPT !.status = "diverged"]
       ELSE LET visited == VisitNeighbors(popped, cur, NeighborOrder(cur))
            IN IF visited.open = <<>>
               THEN [visited EXCEPT !.status = "NoPathError"]
               ELSE visited

\* Pathfinder::find_path(start, end), run to its return.  Among equal
\* distances the heap pops the oldest node (first = TRUE) or the newest.
RECURSIVE FindPathRun(_, _)
FindPathRun(s, first) ==
    IF s.status # "searching" THEN s
    ELSE LET cands == PopCandidates(s)
             i == IF first THEN CHOOSE x \in cands : \A y \in cands : x <= y
                  ELSE CHOOSE x \in cands : \A y \in cands : x >= y
         IN FindPathRun(Iterate(s, i), first)
find_path(start, end, first) == FindPathRun(PfBegin(start, end), first)

\* A caller invokes Pathfinder::find_path(start, end)
FindPathCall ==
    /\ pf.status # "searching"
    /\ \E start \in TileCoords \cup {OutCoord}, end \in TileCoords \cup {OutCoord} :
          pf' = PfBegin(start, end)
    /\ UNCHANGED <<grid_solid, nav_pos, nav_target, nav_changed, cpath, waypoints,
                   nphase, nlast,
                   nav_active, nav_blocked, blockable_changed, finish_sent>>
    /\ UNCHANGED notNav

\* One iteration of the while loop of find_path
FindPathIteration ==
    /\ pf.status = "searching"
    /\ \E i \in PopCandidates(pf) : pf' = Iterate(pf, i)
    /\ UNCHANGED <<grid_solid, nav_pos, nav_target, nav_changed, cpath, waypoints,
                   nphase, nlast,
                   nav_active, nav_blocked, blockable_changed, finish_sent>>
    /\ UNCHANGED notNav

PathNext ==
    \/ FindPathCall
    \/ FindPathIteration

\* -----------------------------------------------------------------
\* Navigation of one entity with Nav, CalculatedPath and MoveSpeed.  A Vec3
\* is a triple <<x, y, z>> of whole numbers; the grid stands at the origin.
\* -----------------------------------------------------------------
\* Coordinates::local(height)
local(c, height) == <<0 - c[1], height, c[2]>>

\* Coordinates::from_local(local): x from -local.x, y from local.y
from_local(v) == <<0 - v[1], v[2]>>

\* The waypoints collected from a path and the nav target
WaypointsOf(path, target) == [i \in 1..Len(path) |-> local(path[i], 0)] \o <<target>>

\* system compute_navigation.  History: nlast keeps what the find_path query
\* returned and the CalculatedPath as it was before.
compute_navigation ==
    /\ nphase = "compute_navigation"
    /\ IF cpath # <<>> /\ ~nav_changed
       THEN /\ nlast' = [status |-> "skipped", path |-> cpath, waypoints |-> waypoints]
            /\ UNCHANGED <<cpath, waypoints>>
       ELSE \E first \in BOOLEAN :
              LET start == from_local(nav_pos)
                  target == from_local(nav_target)
                  r == find_path(start, target, first)
                  path == IF r.status = "Ok" THEN r.path ELSE cpath
              IN /\ r.status # "diverged"
                 /\ cpath' = path
                 /\ waypoints' = WaypointsOf(path, nav_target)
                 /\ nlast' = [status |-> r.status, path |-> cpath, waypoints |-> waypoints]
    /\ nav_changed' = FALSE
    /\ nphase' = "navigation_steering"
    /\ UNCHANGED <<grid_solid, pf, nav_pos, nav_target,
                   nav_active, nav_blocked, blockable_changed, finish_sent>>
    /\ UNCHANGED notNav

\* system navigation_steering (after compute_navigation): the entity reaches
\* the next waypoint in this frame (distance <= move_delta) or, with a
\* move_delta of zero, stays where it is.
navigation_steering ==
    /\ nphase = "navigation_steering"
    /\ IF waypoints = <<>>
       THEN UNCHANGED <<nav_pos, waypoints, finish_sent>>
       ELSE \E reached \in BOOLEAN :
              IF reached \/ nav_pos = Head(waypoints)
              THEN /\ nav_pos' = Head(waypoints)
                   /\ waypoints' = Tail(waypoints)
                   \* path.is_finished(): finish_tx.send(NavigationFinishEvent(id))
                   /\ finish_sent' = IF Tail(waypoints) = <<>> /\ finish_sent < MaxFinishEvents
                                     THEN finish_sent + 1 ELSE finish_sent
              ELSE UNCHANGED <<nav_pos, waypoints, finish_sent>>
    /\ nphase' = "compute_navigation"
    /\ UNCHANGED <<grid_solid, pf, nav_target, nav_changed, cpath, nlast,
                   nav_active, nav_blocked, blockable_changed>>
    /\ UNCHANGED notNav

\* Between two frames: a caller of Nav::set_target
SetNavTarget ==
    /\ nphase = "compute_navigation"
    /\ \E c \in TileCoords \cup {OutCoord} : nav_target' = local(c, 0)
    /\ nav_changed' = TRUE
    /\ finish_sent' = 0
    /\ UNCHANGED <<grid_solid, pf, nav_pos, cpath, waypoints, nphase, nlast,
                   nav_active, nav_blocked, blockable_changed>>
    /\ UNCHANGED notNav

\* Between two frames: start_blocking engaged the navigating entity
\* (blockable.blocked_by = Some(blocker_entity)).
EngageNavigator ==
    /\ nphase = "compute_navigation"
    /\ ~nav_blocked
    /\ nav_blocked' = TRUE
    /\ blockable_changed' = TRUE
    /\ UNCHANGED <<grid_solid, pf, nav_pos, nav_target, nav_changed, cpath, waypoints,
                   nphase, nlast, nav_active, finish_sent>>
    /\ UNCHANGED notNav

\* Between two frames: disengage_dead_blockers released it
\* (blockable.blocked_by = None).
ReleaseNavigator ==
    /\ nphase = "compute_navigation"
    /\ nav_blocked
    /\ nav_blocked' = FALSE
    /\ blockable_changed' = TRUE
    /\ UNCHANGED <<grid_solid, pf, nav_pos, nav_target, nav_changed, cpath, waypoints,
                   nphase, nlast, nav_active, finish_sent>>
    /\ UNCHANGED notNav

\* system disable_nav_for_blocking (Changed<Blockable>); writing Nav.active
\* marks the Nav as changed.
disable_nav_for_blocking ==
    /\ nphase = "compute_navigation"
    /\ IF blockable_changed
       THEN /\ nav_active' = ~nav_blocked
            /\ nav_changed' = TRUE
       ELSE UNCHANGED <<nav_active, nav_changed>>
    /\ blockable_changed' = FALSE
    /\ UNCHANGED <<grid_solid, pf, nav_pos, nav_target, cpath, waypoints, nphase, nlast,
                   nav_blocked, finish_sent>>
    /\ UNCHANGED notNav

\* Grid with its cached tiles; NavBundle::default() on an entity standing
\* on the tile of the origin; no find_path call in progress.
NavInit ==
    /\ grid_solid \in SUBSET TileCoords
    /\ pf = [PfBegin(OutCoord, OutCoord) EXCEPT !.status = "idle", !.open = <<>>]
    /\ nav_pos = <<0, 0, 0>>
    /\ nav_target = <<0, 0, 0>>
    /\ nav_changed = TRUE
    /\ cpath = <<>>
    /\ waypoints = <<>>
    /\ nphase = "compute_navigation"
    /\ nlast = [status |-> "none", path |-> <<>>, waypoints |-> <<>>]
    /\ nav_active = TRUE
    /\ nav_blocked = FALSE
    /\ blockable_changed = FALSE
    /\ finish_sent = 0

\* An enemy on the origin tile of the open grid, sent to some tile
BlockedNavInit ==
    /\ grid_solid = {}
    /\ pf = [PfBegin(OutCoord, OutCoord) EXCEPT !.status = "idle", !.open = <<>>]
    /\ nav_pos = <<0, 0, 0>>
    /\ \E c \in TileCoords : nav_target = local(c, 0)
    /\ nav_changed = TRUE
    /\ cpath = <<>>
    /\ waypoints = <<>>
    /\ nphase = "compute_navigation"
    /\ nlast = [status |-> "none", path |-> <<>>, waypoints |-> <<>>]
    /\ nav_active = TRUE
    /\ nav_blocked = FALSE
    /\ blockable_changed = FALSE
    /\ finish_sent = 0

BlockedNavNext ==
    \/ compute_navigation
    \/ navigation_steering
    \/ EngageNavigator
    \/ ReleaseNavigator
    \/ disable_nav_for_blocking

NavNext ==
    \/ compute_navigation
    \/ navigation_steering
    \/ SetNavTarget


\* =================================================================
\* Stats (src/src/stats/mod.rs, src/src/stats/stat.rs): one entity with a
\* base stat of one kind and the modifiers of that kind on its descendants.
\* An i32 stat is a whole number; an f32 stat is counted in 1/MulDen of a
\* point.  The mul of a modifier is counted in 1/MulDen.
\* =================================================================
StatKinds ==
    {"MaxHp", "Atk", "Def", "Res", "AtkInterval", "Aspd", "MoveSpeed",
     "RedeployTime", "DpCost", "Block"}
\* impl_stat_f32!
FloatKinds == {"AtkInterval", "MoveSpeed", "RedeployTime"}
\* the kinds StatPlugin::build calls add_stat for
StatPluginKinds ==
    {"MaxHp", "Atk", "Def", "Res", "AtkInterval", "MoveSpeed", "RedeployTime",
     "DpCost", "Block"}
ResMax == 100

\* `as i32` of a quotient: towards zero
TruncDiv(a, b) == IF a >= 0 THEN a \div b ELSE 0 - ((0 - a) \div b)

\* the clamp of the stat's macro arm: min 0, and max 100 for Res
StatClamp(K, v) ==
    IF K = "Res" THEN Clamp(v, 0, ResMax) ELSE IF v < 0 THEN 0 ELSE v

\* K::new(value), K::set(value)
StatNew(K, value) == StatClamp(K, value)

\* Modifier::base() and Modifier::combine
ModifierBase == [add |-> 0, mul |-> MulDen]
combine(self, other) == [add |-> self.add + other.add, mul |-> self.mul + other.mul]

\* Stat::apply: multiply, then add, then clamp
apply(K, self, modif) ==
    StatClamp(K, TruncDiv(self * modif.mul, MulDen) + modif.add)

\* the fold of propagate_stat over the descendants in the order visited
RECURSIVE Accumulate(_, _)
Accumulate(final_mod, descendants) ==
    IF descendants = <<>> THEN final_mod
    ELSE Accumulate(combine(final_mod, Head(descendants)), Tail(descendants))

\* propagate_stat::<K>, loop body for the entity: the new ComputedStat<K>
propagate_stat(K, base_stat, descendants, final_stat) ==
    LET final_mod == Accumulate(ModifierBase, descendants)
        result_stat == apply(K, base_stat, final_mod)
    IN IF result_stat # final_stat THEN result_stat ELSE final_stat

\* Values given to K::new and K::set, and the modifiers a descendant carries
StatInputs(K) ==
    LET whole == ((0 - 1)..MaxStatBase) \cup {ResMax, ResMax + 1}
    IN IF K \in FloatKinds THEN {MulDen * v : v \in whole} ELSE whole
StatModifiers == [add : (0 - MaxStatAdd)..MaxStatAdd, mul : (0 - 1)..1]

\* PostUpdate, set StatSystem::PropagateStats: the propagate_stat systems
\* that StatPlugin added run; the descendants are visited in hierarchy order
\* (either way round).
PropagateStats ==
    /\ \E order \in {stat_mods, Reverse(stat_mods)} :
          stat_computed' =
              IF stat_kind \in StatPluginKinds
              THEN propagate_stat(stat_kind, stat_base, order, stat_computed)
              ELSE stat_computed
    /\ stat_passed' = TRUE
    /\ UNCHANGED <<stat_kind, stat_base, stat_mods>>
    /\ UNCHANGED notStat

\* Between two passes: the base stat is set
SetBaseStat ==
    /\ \E v \in StatInputs(stat_kind) :
          /\ StatNew(stat_kind, v) # stat_base
          /\ stat_base' = StatNew(stat_kind, v)
    /\ stat_passed' = FALSE
    /\ UNCHANGED <<stat_kind, stat_mods, stat_computed>>
    /\ UNCHANGED notStat

\* Between two passes: a descendant with a modifier is spawned
InsertModifier ==
    /\ Len(stat_mods) < MaxMods
    /\ \E m \in StatModifiers : stat_mods' = Append(stat_mods, m)
    /\ stat_passed' = FALSE
    /\ UNCHANGED <<stat_kind, stat_base, stat_computed>>
    /\ UNCHANGED notStat

\* Between two passes: a descendant with a modifier is despawned
RemoveModifier ==
    /\ \E i \in 1..Len(stat_mods) : stat_mods' = RemoveAt(stat_mods, i)
    /\ stat_passed' = FALSE
    /\ UNCHANGED <<stat_kind, stat_base, stat_computed>>
    /\ UNCHANGED notStat

\* StatBundle::new(K::new(value)): the computed stat starts as the base stat
StatInit ==
    /\ stat_kind \in StatKinds
    /\ \E v \in StatInputs(stat_kind) : stat_base = StatNew(stat_kind, v)
    /\ stat_mods = <<>>
    /\ stat_computed = stat_base
    /\ stat_passed = FALSE

StatNext ==
    \/ PropagateStats
    \/ SetBaseStat
    \/ InsertModifier
    \/ RemoveModifier

StatIdle == StatInit /\ stat_kind = "Block" /\ stat_base = 0


\* =================================================================
\* The Update schedule of one frame (the build functions of the plugins of
\* BattlePlugins, NavPlugin and StatusPlugin): the systems run in any order
\* that the declared before/after/chain constraints permit.
\* =================================================================
\* (a, b, c).chain(): each system before the later ones
ChainOrder(seq) ==
    {<<seq[q[1]], seq[q[2]]>> :
        q \in {r \in (1..Len(seq)) \X (1..Len(seq)) : r[1] < r[2]}}

\* the system sets of TargetingPlugin and their members
SortTargets == {"sort_targets"}
SearchTargets ==
    {"clear_targets", "priority_blocked_targets", "priority_blocker_target",
     "search_targets"}
\* NavSystem::Steering: no system of NavPlugin is put in this set
NavSteering == {}

\* TargetingPlugin::build
TargetingOrder ==
    ChainOrder(<<"clear_targets", "priority_blocked_targets",
                 "priority_blocker_target", "search_targets">>)
        \cup (SortTargets \X SearchTargets)

\* BlockingPlugin::build
BlockingOrder ==
    ({"start_blocking", "disable_nav_for_blocking"} \X NavSteering)
        \cup {<<"start_blocking", "disable_nav_for_blocking">>,
              <<"disengage_dead_blockers", "disable_nav_for_blocking">>,
              <<"start_blocking", "disengage_dead_blockers">>,
              <<"start_blocking", "reset_attack_cycles">>}

\* Mutant of AutoAttackOrder: standby_with_no_targets is not put after
\* TargetingSystems::SearchTargets.
AutoAttackOrder_standby_unordered ==
    {<<"standby_with_no_targets", "tick_attack_cycle_timers">>,
     <<"tick_attack_cycle_timers", "do_melee_auto_attack">>}
        \cup (SearchTargets \X {"do_melee_auto_attack"})

\* AutoAttackPlugin::build
AutoAttackOrder ==
    {<<"standby_with_no_targets", "tick_attack_cycle_timers">>,
     <<"tick_attack_cycle_timers", "do_melee_auto_attack">>}
        \cup (SearchTargets \X {"standby_with_no_targets", "do_melee_auto_attack"})

\* NavPlugin::build
NavOrder == {<<"compute_navigation", "navigation_steering">>}

\* SkillPlugin::build: the outer chain orders every system of an earlier
\* element before every system of a later one
SkillOrder ==
    ChainOrder(<<"deactivate_skills", "activate_auto_skills", "take_used_sp",
                 "update_lockout_timer", "increase_sp_with_time">>)
        \cup ChainOrder(<<"deactivate_skills", "activate_auto_skills",
                          "start_lockout_timer", "update_lockout_timer",
                          "increase_sp_with_time">>)

\* Every system the plugins add to Update
UpdateSystems ==
    SortTargets \cup SearchTargets
        \cup {"start_blocking", "disable_nav_for_blocking",
              "disengage_dead_blockers", "reset_attack_cycles"}
        \cup {"standby_with_no_targets", "tick_attack_cycle_timers",
              "do_melee_auto_attack"}
        \cup {"compute_navigation", "debug_show_navigation", "navigation_steering"}
        \cup {"start_followers", "update_followers_navigation"}
        \cup {"deactivate_skills", "activate_auto_skills", "take_used_sp",
              "start_lockout_timer", "update_lockout_timer", "increase_sp_with_time"}
        \cup {"tick_hp_decay", "damage::tick_attack_cycle_timers"}

RunsBefore ==
    TargetingOrder \cup BlockingOrder \cup AutoAttackOrder \cup NavOrder
        \cup SkillOrder

\* The executor starts a system whose predecessors have all finished.
RunSystem ==
    /\ \E s \in UpdateSystems \ sched_ran :
          /\ \A p \in RunsBefore : p[2] = s => p[1] \in sched_ran
          /\ sched_ran' = sched_ran \cup {s}
          /\ sched_last' = s
    /\ UNCHANGED notSched

\* Every system has run: the frame ends and the next one begins.
EndUpdate ==
    /\ sched_ran = UpdateSystems
    /\ sched_ran' = {}
    /\ sched_last' = "none"
    /\ UNCHANGED notSched

SchedInit ==
    /\ sched_ran = {}
    /\ sched_last = "none"

SchedNext ==
    \/ RunSystem
    \/ EndUpdate

SchedIdle == SchedInit


\* =================================================================
\* Followers (src/src/battle/path.rs): entities with Follower and Nav, and
\* one navigating entity without a Follower.  A checkpoint is named by its
\* index in Follower.checkpoints, counted from 0.
\* =================================================================
Followers == {1, 2}
Wanderer == 3
Navigators == Followers \cup {Wanderer}

\* Follower::next: the index of the checkpoint, or NoCheckpoint for None
NoCheckpoint == 0 - 1
Follower_next(len, idx) == IF idx < len THEN idx ELSE NoCheckpoint

\* Follower::advance
Follower_advance(idx) == idx + 1

\* system start_followers (Query<.., Added<Follower>>)
start_followers ==
    /\ \E f \in Followers : follower_added[f]
    /\ follower_target' =
          [f \in Followers |->
              IF follower_added[f]
                 /\ Follower_next(follower_len[f], follower_idx[f]) # NoCheckpoint
              THEN Follower_next(follower_len[f], follower_idx[f])
              ELSE follower_target[f]]
    /\ navigating' =
          [e \in Navigators |->
              IF e \in Followers /\ follower_added[e]
                 /\ Follower_next(follower_len[e], follower_idx[e]) # NoCheckpoint
              THEN TRUE ELSE navigating[e]]
    /\ follower_added' = [f \in Followers |-> FALSE]
    /\ UNCHANGED <<follower_len, follower_idx, finish_rx, checkpoint_events,
                   follower_passes>>
    /\ UNCHANGED notFollower

\* navigation_steering pops the last waypoint of an entity:
\* finish_tx.send(NavigationFinishEvent(id)).  An entity finishes at most
\* once between two runs of update_followers_navigation.
SendNavigationFinish ==
    /\ \E e \in Navigators :
          /\ navigating[e]
          /\ \A i \in 1..Len(finish_rx) : finish_rx[i] # e
          /\ navigating' = [navigating EXCEPT ![e] = FALSE]
          /\ finish_rx' = Append(finish_rx, e)
    /\ UNCHANGED <<follower_len, follower_idx, follower_added, follower_target,
                   checkpoint_events, follower_passes>>
    /\ UNCHANGED notFollower

\* The loop of update_followers_navigation over the unread events evs;
\* st = [idx, target, navigating, passes].
RECURSIVE AdvanceFollowers(_, _)
AdvanceFollowers(st, evs) ==
    IF evs = <<>> THEN st
    ELSE LET e == Head(evs)
             idx == Follower_advance(st.idx[e])
             next == Follower_next(follower_len[e], idx)
             st2 == IF e \notin Followers THEN st
                    ELSE [idx |-> [st.idx EXCEPT ![e] = idx],
                          target |-> IF next # NoCheckpoint
                                     THEN [st.target EXCEPT ![e] = next]
                                     ELSE st.target,
                          navigating |-> IF next # NoCheckpoint
                                         THEN [st.navigating EXCEPT ![e] = TRUE]
                                         ELSE st.navigating,
                          passes |-> [st.passes EXCEPT ![e] = @ + 1]]
         IN AdvanceFollowers(st2, Tail(evs))

\* system update_followers_navigation.  History: follower_passes counts the
\* advances of each Follower, checkpoint_events the CheckpointPassedEvents
\* sent for it (no system of src/ has an EventWriter for them).
update_followers_navigation ==
    /\ LET st == AdvanceFollowers([idx |-> follower_idx, target |-> follower_target,
                                   navigating |-> navigating,
                                   passes |-> follower_passes], finish_rx)
       IN /\ follower_idx' = st.idx
          /\ follower_target' = st.target
          /\ navigating' = st.navigating
          /\ follower_passes' = st.passes
    /\ finish_rx' = <<>>
    /\ UNCHANGED <<follower_len, follower_added, checkpoint_events>>
    /\ UNCHANGED notFollower

\* Another system gives the entity without Follower a Nav target.
WandererSetTarget ==
    /\ ~navigating[Wanderer]
    /\ navigating' = [navigating EXCEPT ![Wanderer] = TRUE]
    /\ UNCHANGED <<follower_len, follower_idx, follower_added, follower_target,
                   finish_rx, checkpoint_events, follower_passes>>
    /\ UNCHANGED notFollower

\* Follower::new(checkpoints) on freshly spawned entities
FollowerInit ==
    /\ follower_len \in [Followers -> 0..MaxCheckpoints]
    /\ follower_idx = [f \in Followers |-> 0]
    /\ follower_added = [f \in Followers |-> TRUE]
    /\ follower_target = [f \in Followers |-> NoCheckpoint]
    /\ navigating = [e \in Navigators |-> FALSE]
    /\ finish_rx = <<>>
    /\ checkpoint_events = [f \in Followers |-> 0]
    /\ follower_passes = [f \in Followers |-> 0]

FollowerNext ==
    \/ start_followers
    \/ SendNavigationFinish
    \/ update_followers_navigation
    \/ WandererSetTarget

FollowerIdle == FollowerInit /\ follower_len = [f \in Followers |-> 0]


\* =================================================================
\* Engagement changes of one Blockable that carries an AttackCycle
\* (src/src/battle/blocking.rs): which Blockers overlap it and have spare
\* capacity in a frame is an input.  The systems of a frame run in the
\* orders BlockingPlugin::build permits.
\* =================================================================
\* start_blocking for the Blockable: every Blocker of takers (can_block,
\* overlapping, spare capacity) pushes it and writes blocked_by.
RECURSIVE PushInto(_, _, _)
PushInto(st, takers, bs) ==
    IF bs = <<>> THEN st
    ELSE LET b == Head(bs)
             st2 == IF b \in takers
                    THEN [lists |-> st.lists \cup {b}, blocked_by |-> b, written |-> TRUE]
                    ELSE st
         IN PushInto(st2, takers, Tail(bs))

reset_start_blocking ==
    /\ "start_blocking" \notin rc_ran
    /\ IF rc_blocked_by # None
       THEN UNCHANGED <<rc_blocked_by, rc_lists, rc_changed, rc_value_changed>>
       ELSE \E takers \in SUBSET {b \in Blockers : rc_can_block[b]} :
              LET st == PushInto([lists |-> rc_lists, blocked_by |-> rc_blocked_by,
                                  written |-> FALSE], takers, BlockerOrder)
              IN /\ rc_lists' = st.lists
                 /\ rc_blocked_by' = st.blocked_by
                 /\ rc_changed' = (rc_changed \/ st.written)
                 /\ rc_value_changed' = (rc_value_changed \/ st.blocked_by # rc_blocked_by)
    /\ rc_ran' = rc_ran \cup {"start_blocking"}
    /\ UNCHANGED <<rc_can_block, rc_death_rx, rc_elapsed, rc_reset>>
    /\ UNCHANGED notReset

\* disengage_dead_blockers: a dead Blocker whose list holds the Blockable
\* writes blocked_by = None.
reset_disengage_dead_blockers ==
    /\ "start_blocking" \in rc_ran
    /\ "disengage_dead_blockers" \notin rc_ran
    /\ LET hit == rc_death_rx \cap rc_lists
       IN /\ rc_lists' = rc_lists \ rc_death_rx
          /\ rc_can_block' = [b \in Blockers |-> rc_can_block[b] /\ b \notin rc_death_rx]
          /\ IF hit # {}
             THEN /\ rc_blocked_by' = None
                  /\ rc_changed' = TRUE
                  /\ rc_value_changed' = (rc_value_changed \/ rc_blocked_by # None)
             ELSE UNCHANGED <<rc_blocked_by, rc_changed, rc_value_changed>>
    /\ rc_death_rx' = {}
    /\ rc_ran' = rc_ran \cup {"disengage_dead_blockers"}
    /\ UNCHANGED <<rc_elapsed, rc_reset>>
    /\ UNCHANGED notReset

\* system reset_attack_cycles (Changed<Blockable>): attack_cycle.reset().
\* History: rc_reset tells whether this run reset the cycle, and
\* rc_value_changed restarts.
reset_attack_cycles ==
    /\ "start_blocking" \in rc_ran
    /\ "reset_attack_cycles" \notin rc_ran
    /\ rc_elapsed' = IF rc_changed THEN 0 ELSE rc_elapsed
    /\ rc_reset' = rc_changed
    /\ rc_changed' = FALSE
    /\ rc_value_changed' = FALSE
    /\ rc_ran' = rc_ran \cup {"reset_attack_cycles"}
    /\ UNCHANGED <<rc_blocked_by, rc_lists, rc_can_block, rc_death_rx>>
    /\ UNCHANGED notReset

\* The frame ends; tick_attack_cycle_timers has advanced the cycle or not.
ResetEndFrame ==
    /\ rc_ran = {"start_blocking", "disengage_dead_blockers", "reset_attack_cycles"}
    /\ rc_ran' = {}
    /\ \E e \in 0..MaxDelta : rc_elapsed' = IF rc_elapsed + e > MaxInterval
                                            THEN rc_elapsed ELSE rc_elapsed + e
    /\ UNCHANGED <<rc_blocked_by, rc_lists, rc_can_block, rc_death_rx, rc_changed,
                   rc_value_changed, rc_reset>>
    /\ UNCHANGED notReset

\* PostUpdate: send_death_event sends the DeathEvent of a Blocker.
ResetBlockerDies ==
    /\ rc_ran = {}
    /\ \E b \in Blockers :
          /\ rc_can_block[b] /\ b \notin rc_death_rx
          /\ rc_death_rx' = rc_death_rx \cup {b}
    /\ UNCHANGED <<rc_blocked_by, rc_lists, rc_can_block, rc_changed, rc_value_changed,
                   rc_elapsed, rc_reset, rc_ran>>
    /\ UNCHANGED notReset

\* The Blockable has been alive for some frames: reset_attack_cycles has
\* seen its insertion.
ResetInit ==
    /\ rc_blocked_by = None
    /\ rc_lists = {}
    /\ rc_can_block = [b \in Blockers |-> TRUE]
    /\ rc_death_rx = {}
    /\ rc_changed = FALSE
    /\ rc_value_changed = FALSE
    /\ rc_elapsed \in 0..MaxInterval
    /\ rc_reset = FALSE
    /\ rc_ran = {}

ResetNext ==
    \/ reset_start_blocking
    \/ reset_disengage_dead_blockers
    \/ reset_attack_cycles
    \/ ResetEndFrame
    \/ ResetBlockerDies

ResetIdle == ResetInit /\ rc_elapsed = 0


\* =================================================================
\* Tile coordinates (src/src/tile_map/mod.rs): the round trip of a
\* Coordinates value through Coordinates::local and
\* Coordinates::from_local.  Heights are whole numbers, on which floor()
\* changes nothing.
\* =================================================================
CoordValues == {<<x, y>> : x \in (0 - MaxCoord)..MaxCoord, y \in (0 - MaxCoord)..MaxCoord}
Heights == 0..MaxHeight

\* c.local(height) is taken
ApplyLocal ==
    /\ rt_local = NoCoord
    /\ rt_local' = local(rt_c, rt_height)
    /\ UNCHANGED <<rt_c, rt_height, rt_back>>
    /\ UNCHANGED notCoord

\* Coordinates::from_local of the position just computed
ApplyFromLocal ==
    /\ rt_local # NoCoord
    /\ rt_back = NoCoord
    /\ rt_back' = from_local(rt_local)
    /\ UNCHANGED <<rt_c, rt_height, rt_local>>
    /\ UNCHANGED notCoord

CoordInit ==
    /\ rt_c \in CoordValues
    /\ rt_height \in Heights
    /\ rt_local = NoCoord
    /\ rt_back = NoCoord

CoordNext ==
    \/ ApplyLocal
    \/ ApplyFromLocal

CoordIdle == CoordInit /\ rt_c = <<0, 0>> /\ rt_height = 0

\* =================================================================
\* Specifications
\* =================================================================
\* One subsystem runs in each specification; the others rest in one of their
\* initial states.
BlockingIdle == BlockingInit /\ bpos = [e \in Blockables |-> 0]
DcycleIdle == DcycleInit /\ dcycle = damage_AttackCycleNew(1, 1) /\ dinterval = 1
AttackIdle == AttackInit /\ acycle = AttackCycleNew(1, 1) /\ ainterval = 1
HealthIdle == HealthInit /\ max_hp = 1
SkillIdle ==
    /\ SkillInit
    /\ skill = SkillNew(DeltaStep, 0, 0)
    /\ increase_with_time = FALSE
    /\ min_targets = 1

NavIdle == NavInit /\ grid_solid = {}
\* The navigation scenario runs on the grids with at most one solid tile.
NavScene == NavInit /\ Cardinality(grid_solid) <= 1

\* The blocking state the targeting scenario starts from: the enemies stand
\* in a row and start_blocking has run once.
BlockingEngaged ==
    /\ can_block = [b \in Blockers |-> TRUE]
    /\ block_stat = [b \in Blockers |-> MaxBlock]
    /\ bpos = [e \in Blockables |-> IF e - 11 < MaxPos THEN e - 11 ELSE MaxPos]
    /\ death_rx = <<>>
    /\ bdead = [b \in Blockers |-> FALSE]
    /\ bphase = "start_blocking"
    /\ LET st == ScanBlockables([blocking |-> [b \in Blockers |-> <<>>],
                                 blocked_by |-> [e \in Blockables |-> None]],
                                BlockableOrder)
       IN /\ blocking = st.blocking
          /\ blocked_by = st.blocked_by

InitBlocking == BlockingInit /\ DcycleIdle /\ AttackIdle /\ HealthIdle /\ TargetingInit /\ SkillIdle /\ NavIdle /\ StatIdle /\ SchedIdle /\ FollowerIdle /\ ResetIdle /\ CoordIdle
InitCycle == BlockingIdle /\ DcycleInit /\ AttackIdle /\ HealthIdle /\ TargetingInit /\ SkillIdle /\ NavIdle /\ StatIdle /\ SchedIdle /\ FollowerIdle /\ ResetIdle /\ CoordIdle
InitAttack == BlockingIdle /\ DcycleIdle /\ AttackInit /\ HealthIdle /\ TargetingInit /\ SkillIdle /\ NavIdle /\ StatIdle /\ SchedIdle /\ FollowerIdle /\ ResetIdle /\ CoordIdle
InitHealth == BlockingIdle /\ DcycleIdle /\ AttackIdle /\ HealthInit /\ TargetingInit /\ SkillIdle /\ NavIdle /\ StatIdle /\ SchedIdle /\ FollowerIdle /\ ResetIdle /\ CoordIdle
InitTargeting == BlockingEngaged /\ DcycleIdle /\ AttackIdle /\ HealthIdle /\ TargetingInit /\ SkillIdle /\ NavIdle /\ StatIdle /\ SchedIdle /\ FollowerIdle /\ ResetIdle /\ CoordIdle
InitSkill == BlockingIdle /\ DcycleIdle /\ AttackIdle /\ HealthIdle /\ TargetingInit /\ SkillInit /\ NavIdle /\ StatIdle /\ SchedIdle /\ FollowerIdle /\ ResetIdle /\ CoordIdle
InitNav == BlockingIdle /\ DcycleIdle /\ AttackIdle /\ HealthIdle /\ TargetingInit /\ SkillIdle /\ NavInit /\ StatIdle /\ SchedIdle /\ FollowerIdle /\ ResetIdle /\ CoordIdle
InitNavScene == BlockingIdle /\ DcycleIdle /\ AttackIdle /\ HealthIdle /\ TargetingInit /\ SkillIdle /\ NavScene /\ StatIdle /\ SchedIdle /\ FollowerIdle /\ ResetIdle /\ CoordIdle

SpecBlocking == InitBlocking /\ [][BlockingNext]_vars
SpecCycle == InitCycle /\ [][DcycleNext]_vars
SpecMelee == InitAttack /\ [][MeleeNext]_vars
SpecAttack == InitAttack /\ [][AttackNext]_vars
InitMeleeEvent == BlockingIdle /\ DcycleIdle /\ MeleeEventInit /\ HealthIdle /\ TargetingInit /\ SkillIdle /\ NavIdle /\ StatIdle /\ SchedIdle /\ FollowerIdle /\ ResetIdle /\ CoordIdle
SpecMeleeEvent == InitMeleeEvent /\ [][MeleeEventNext]_vars
InitStandby == BlockingIdle /\ DcycleIdle /\ StandbyInit /\ HealthIdle /\ TargetingInit /\ SkillIdle /\ NavIdle /\ StatIdle /\ SchedIdle /\ FollowerIdle /\ ResetIdle /\ CoordIdle
\* Frames with a positive Time::delta keep coming.
SpecStandbyFair ==
    /\ InitStandby /\ [][StandbyNext]_vars
    /\ WF_vars(TickPositive)
SpecHealth == InitHealth /\ [][HealthNext]_vars
SpecTargeting == InitTargeting /\ [][TargetingNext]_vars
SpecSkill == InitSkill /\ [][SkillNext]_vars
\* The schedule runs every system of the chain in every frame, and frames
\* with a positive Time::delta keep coming.
SkillSystems ==
    \/ deactivate_skills
    \/ activate_auto_skills
    \/ take_used_sp
    \/ start_lockout_timer
    \/ update_lockout_timer
    \/ increase_sp_with_time
SpecSkillFair ==
    /\ InitSkill /\ [][SkillNext]_vars
    /\ WF_vars(SkillSystems)
    /\ SF_vars(update_lockout_timer /\ sdelta' > 0)
SpecPath == InitNav /\ [][PathNext]_vars
\* A call of find_path that has begun runs on: the loop is not interrupted.
SpecPathFair == InitNav /\ [][PathNext]_vars /\ WF_vars(FindPathIteration)
SpecNav == InitNavScene /\ [][NavNext]_vars
InitReset == BlockingIdle /\ DcycleIdle /\ AttackIdle /\ HealthIdle /\ TargetingInit /\ SkillIdle /\ NavIdle /\ StatIdle /\ SchedIdle /\ FollowerIdle /\ ResetInit /\ CoordIdle
SpecReset == InitReset /\ [][ResetNext]_vars
InitBlockedNav == BlockingIdle /\ DcycleIdle /\ AttackIdle /\ HealthIdle /\ TargetingInit /\ SkillIdle /\ BlockedNavInit /\ StatIdle /\ SchedIdle /\ FollowerIdle /\ ResetIdle /\ CoordIdle
SpecBlockedNav == InitBlockedNav /\ [][BlockedNavNext]_vars
InitStat == BlockingIdle /\ DcycleIdle /\ AttackIdle /\ HealthIdle /\ TargetingInit /\ SkillIdle /\ NavIdle /\ StatInit /\ SchedIdle /\ FollowerIdle /\ ResetIdle /\ CoordIdle
SpecStat == InitStat /\ [][StatNext]_vars
InitSched == BlockingIdle /\ DcycleIdle /\ AttackIdle /\ HealthIdle /\ TargetingInit /\ SkillIdle /\ NavIdle /\ StatIdle /\ SchedInit /\ FollowerIdle /\ ResetIdle /\ CoordIdle
SpecSched == InitSched /\ [][SchedNext]_vars
InitFollower == BlockingIdle /\ DcycleIdle /\ AttackIdle /\ HealthIdle /\ TargetingInit /\ SkillIdle /\ NavIdle /\ StatIdle /\ SchedIdle /\ FollowerInit /\ ResetIdle /\ CoordIdle
SpecFollower == InitFollower /\ [][FollowerNext]_vars
InitCoord == BlockingIdle /\ DcycleIdle /\ AttackIdle /\ HealthIdle /\ TargetingInit /\ SkillIdle /\ NavIdle /\ StatIdle /\ SchedIdle /\ FollowerIdle /\ ResetIdle /\ CoordInit
SpecCoord == InitCoord /\ [][CoordNext]_vars

\* =================================================================
\* Claims
\* =================================================================

\* C1: at every observed tick (after start_blocking has run against the
\* current stats) each Blocker's blocking list is no longer than its computed
\* Block stat.
C1_BlockingCapacity ==
    bphase = "disengage_dead_blockers" =>
        \A b \in Blockers : Len(blocking[b]) <= block_stat[b]

\* C2: from a cycle in steady state (interval set, no standby, swings
\* uncompressed) one tick of 2 * interval credits as many hits as two
\* consecutive ticks of interval each.
C2_TickSizeInvariant ==
    (/\ dcycle.timer.duration = dinterval
     /\ ~dcycle.standby
     /\ dcycle.frontswing + dcycle.backswing < dinterval)
    => LET one == damage_tick(dcycle, 2 * dinterval)
           first == damage_tick(dcycle, dinterval)
           second == damage_tick(first, dinterval)
       IN attacks_this_tick(one) = attacks_this_tick(first) + attacks_this_tick(second)

\* C3: with a fixed interval, uncompressed swings and a target present, at
\* the end of every frame the number of frames in which do_melee_auto_attack
\* sent damage equals the number of frontswing boundaries crossed so far.
C3_HitPerCrossing ==
    (/\ aphase = "standby_with_no_targets"
     /\ acycle.frontswing + acycle.backswing < ainterval)
    => hit_ticks = crossings

C5_DeadOneWay == [][dead => dead']_vars

\* C5 witness: a Dead entity whose hp was restored above zero.
C5_Witness == dead /\ FGt(hp, Num(0))

\* C6: exactly one DeathEvent is sent for the entity, in the first
\* death-detection pass that sees hp <= 0, and none before or after.
C6_OneDeathEvent == death_events = (IF life = 0 THEN 0 ELSE 1)

\* C6 witness: the passes saw hp <= 0, then hp > 0, then hp <= 0 again.
C6_Witness == life = 3 /\ death_events = 1

C8_SearchDeterministic ==
    tphase = "sort_targets" => (search_twin = targets /\ search_rerun = targets)

\* C8 witness: search_targets replaced the non-empty Targets of an actor by
\* a different non-empty result.
C8_Witness ==
    /\ tphase = "sort_targets"
    /\ \E a \in TEntities :
          /\ has_range[a]
          /\ search_prior[a] # <<>>
          /\ targets[a] # <<>>
          /\ targets[a] # search_prior[a]

\* C9: is_hostile_to is symmetric on the Hostility of every two entities
\* (each of Neutral, Hostile, Friendly, or a missing component).
C9_HostilitySymmetric ==
    \A a \in TEntities, t \in TEntities :
        is_hostile_to(HostilityOf(a), HostilityOf(t))
            = is_hostile_to(HostilityOf(t), HostilityOf(a))

\* C9 witness: a Friendly actor targets a Hostile entity that targets it
\* back, while two entities of equal allegiance are not hostile.
C9_Witness ==
    /\ \E a \in TEntities, t \in TEntities :
          /\ HostilityOf(a) = "Friendly" /\ HostilityOf(t) = "Hostile"
          /\ \E i \in 1..Len(targets[a]) : targets[a][i] = t
          /\ \E i \in 1..Len(targets[t]) : targets[t][i] = a
    /\ \E a \in TEntities, t \in TEntities :
          /\ a # t
          /\ ~is_hostile_to(HostilityOf(a), HostilityOf(t))

\* C10: for a Capped skill, in the tick in which activate_auto_skills finds
\* sp >= max_sp and enough targets, one SkillActivationEvent is sent, sp
\* becomes 0 and a lockout timer of 750 ms is started; until 750 ms have
\* been ticked since then, sp stays 0 and no further SkillActivationEvent
\* is sent.
C10_BurstLockout ==
    skill.overflow = 0 =>
        /\ (sphase = "update_lockout_timer" /\ tick_ready) =>
               /\ tick_events = 1
               /\ skill.sp = 0
               /\ lockout_timer = TimerNew(BURST_SP_LOCKOUT_DURATION, "Once")
        /\ (/\ window_events > 0
            /\ since_activation < BURST_SP_LOCKOUT_DURATION
            /\ sphase # "take_and_lockout") =>
               /\ skill.sp = 0
               /\ window_events = 1

\* C10 witness: a regenerating Capped skill in the middle of its lockout,
\* with enough targets present.
C10_Witness ==
    /\ skill.overflow = 0
    /\ increase_with_time
    /\ min_targets <= skill_targets
    /\ window_events = 1
    /\ since_activation > 0
    /\ since_activation < BURST_SP_LOCKOUT_DURATION
    /\ skill.sp_lockout
    /\ sphase = "deactivate_skills"

\* C11: when the find_path query of compute_navigation returned NoPathError,
\* the CalculatedPath (path and waypoint queue) is as it was before.
C11_FailedQueryKeepsPath ==
    (nphase = "navigation_steering" /\ nlast.status = "NoPathError")
    => (cpath = nlast.path /\ waypoints = nlast.waypoints)

\* C12: when the targeting phase ends, the Targets of an actor with Targeting,
\* Blocker and Range begin with the hostile entities it blocks, in the order
\* of its blocking list and cut to max_targets; the range search fills only
\* the capacity that is left.
IsPrefix(p, s) == Len(p) <= Len(s) /\ SubSeq(s, 1, Len(p)) = p
C12_BlockedTargetsFirst ==
    [][search_targets =>
          \A b \in Blockers :
              has_range[b] => IsPrefix(BlockedTargetsFor(b, <<>>), targets'[b])]_vars

\* C13: when the targeting phase ends, no actor has more Targets than its
\* max_targets (0 included), and its Targets are those the systems find from
\* an empty list: nothing of the previous frame is left in them.
FreshTargets(e) ==
    IF has_range[e] THEN SearchFor(e, <<>>)
    ELSE IF e \in Blockers THEN BlockedTargetsFor(e, <<>>)
    ELSE BlockerTargetFor(e, <<>>)
InList(e, b) == \E i \in 1..Len(blocking[b]) : blocking[b][i] = e
C14_BlockingRelation ==
    \A e \in Blockables :
        /\ Cardinality({b \in Blockers : InList(e, b)}) <= 1
        /\ \A b \in Blockers : InList(e, b) <=> blocked_by[e] = b

\* C15: the step that processes the DeathEvent of a Blocker leaves every
\* entity of its blocking list with blocked_by = None, the list empty and
\* can_block false; afterwards (nothing sets can_block again) the list stays
\* empty.
InSeq(x, s) == \E i \in 1..Len(s) : s[i] = x
C15_DeadBlockerDisengaged ==
    /\ [][disengage_dead_blockers =>
            \A b \in Blockers :
                InSeq(b, death_rx) =>
                    /\ blocking'[b] = <<>>
                    /\ ~can_block'[b]
                    /\ \A e \in Blockables : InList(e, b) => blocked_by'[e] = None]_vars
    /\ [](\A b \in Blockers :
              (bdead[b] /\ ~InSeq(b, death_rx)) => (blocking[b] = <<>> /\ ~can_block[b]))

\* start_blocking has run after the death of a blocker was processed, with a
\* free Blockable overlapping that blocker and capacity left
C15_Witness ==
    /\ bphase = "disengage_dead_blockers"
    /\ \E b \in Blockers :
          /\ bdead[b] /\ ~InSeq(b, death_rx)
          /\ block_stat[b] > 0
          /\ \E e \in Blockables : Overlaps(e, b) /\ blocked_by[e] = None

\* C16: in every reachable state the sp of a Skill is within 0 and its cap:
\* max_sp for Capped, max_sp * n for Charge(n).
SpCap(s) == IF s.overflow = 0 THEN s.max_sp ELSE s.max_sp * s.overflow
C17_ActivationTakesMaxSp ==
    [][(take_used_sp /\ take_rx > 0)
          => skill'.sp = skill.sp - take_rx * skill.max_sp]_vars

\* C18: every activation is eventually followed by the end of its lockout
\* (sp_lockout false) and a SkillDeactivationEvent, while frames with a
\* positive delta keep coming.
C18_ActivationEnds ==
    (sphase = "take_and_lockout" /\ tick_events > 0)
        ~> (deactivation_sent /\ ~skill.sp_lockout)

\* C19: find_path returns Ok exactly when end is reachable from start by
\* 4-adjacent steps, each onto a non-solid tile of the grid, and NoPathError
\* otherwise; the path returned begins at start, ends at end, moves by
\* 4-adjacent steps, has only non-solid grid tiles after its first element
\* and repeats no coordinate.
Adjacent(a, b) == Abs(a[1] - b[1]) + Abs(a[2] - b[2]) = 1
RECURSIVE ReachableFrom(_)
ReachableFrom(S) ==
    LET more == S \cup {c \in TileCoords :
                           ~IsSolid(c) /\ \E d \in S : Adjacent(d, c)}
    IN IF more = S THEN S ELSE ReachableFrom(more)
WellFormedPath(path, start, end) ==
    /\ Len(path) >= 1
    /\ path[1] = start
    /\ path[Len(path)] = end
    /\ \A i \in 1..(Len(path) - 1) : Adjacent(path[i], path[i + 1])
    /\ \A i \in 2..Len(path) : path[i] \in TileCoords /\ ~IsSolid(path[i])
    /\ \A i, j \in 1..Len(path) : path[i] = path[j] => i = j
C19_FindPathCorrect ==
    (pf.status \notin {"idle", "searching"}) =>
        /\ pf.status \in {"Ok", "NoPathError"}
        /\ pf.status = "Ok" <=> pf.end \in ReachableFrom({pf.start})
        /\ pf.status = "Ok" => WellFormedPath(pf.path, pf.start, pf.end)

\* a path was returned that is longer than the straight way from start to
\* end, on a grid with a solid tile
C19_Witness ==
    /\ pf.status = "Ok"
    /\ grid_solid # {}
    /\ Len(pf.path) - 1 > Abs(pf.start[1] - pf.end[1]) + Abs(pf.start[2] - pf.end[2])

\* C20: find_path terminates: no coordinate is pushed onto open more than
\* once, the start is pushed only at the beginning, the reconstruction of
\* the path ends, at start, and a search that has begun returns.
C20_FindPathTerminates ==
    /\ [](/\ pf.status # "diverged"
          /\ \A c \in SearchCoords : pf.pushes[c] <= 1
          /\ pf.status = "searching" => pf.pushes[pf.start] = 1
          /\ pf.status = "Ok" => pf.path[1] = pf.start)
    /\ (pf.status = "searching") ~> (pf.status \in {"Ok", "NoPathError"})

\* a search has returned a path after it looked at the start again from a
\* neighbour: the path has three tiles or more
C20_Witness == pf.status = "Ok" /\ Len(pf.path) >= 3

\* C21: after a propagation pass the ComputedStat of every kind equals
\* clamp(base * (1 + sum of the mul of the descendants' modifiers) + sum of
\* their add), whatever the order of the descendants and the value before.
RECURSIVE SumOf(_, _)
SumOf(mods, field) ==
    IF mods = <<>> THEN 0 ELSE Head(mods)[field] + SumOf(Tail(mods), field)
ExpectedStat(K, base, mods) ==
    StatClamp(K, TruncDiv(base * (MulDen + SumOf(mods, "mul")), MulDen)
                    + SumOf(mods, "add"))
C21_PropagatedStat ==
    stat_passed => stat_computed = ExpectedStat(stat_kind, stat_base, stat_mods)

\* C22: in every permitted order of a frame, start_blocking and
\* disengage_dead_blockers have run when priority_blocked_targets or
\* priority_blocker_target runs.
C22_BlockingBeforeTargeting ==
    \A s \in {"priority_blocked_targets", "priority_blocker_target"} :
        s \in sched_ran =>
            {"start_blocking", "disengage_dead_blockers"} \subseteq sched_ran

\* C23: a blocker whose DeathEvent has been sent gains no blockee: its
\* release comes before start_blocking looks at it again.
C23_DeadBlockerGainsNone ==
    [][start_blocking =>
          \A b \in Blockers : bdead[b] => blocking'[b] = blocking[b]]_vars

\* C24: in every permitted order of a frame, standby_with_no_targets,
\* tick_attack_cycle_timers and do_melee_auto_attack run after every system
\* of SortTargets and SearchTargets, and in that order.
C24_AttackAfterTargeting ==
    /\ \A s \in {"standby_with_no_targets", "tick_attack_cycle_timers",
                 "do_melee_auto_attack"} :
          s \in sched_ran => (SortTargets \cup SearchTargets) \subseteq sched_ran
    /\ "tick_attack_cycle_timers" \in sched_ran
          => "standby_with_no_targets" \in sched_ran
    /\ "do_melee_auto_attack" \in sched_ran
          => "tick_attack_cycle_timers" \in sched_ran

\* do_melee_auto_attack has just run in a frame in which systems it is not
\* ordered against (blocking) have not run yet
C24_Witness ==
    /\ sched_last = "do_melee_auto_attack"
    /\ "start_blocking" \notin sched_ran

\* C25: each time a Follower passes a checkpoint (its navigation finished
\* and it advanced) one CheckpointPassedEvent for it has been sent.
C25_EventPerCheckpoint ==
    \A f \in Followers : checkpoint_events[f] = follower_passes[f]

\* C26: while the computed Aspd is zero (the interval handed to
\* set_interval is Duration::MAX) no frame of the auto-attack systems
\* credits a hit.
C26_NoHitAtZeroAspd ==
    [][(do_melee_auto_attack /\ ainterval = DurationMax)
          => hit_ticks' = hit_ticks]_vars

\* C27: after priority_blocked_targets no entity that carries the Dead
\* marker or is not hostile to the actor is in the actor's Targets.
C27_BlockedTargetsAliveHostile ==
    tphase = "priority_blocker_target" =>
        \A b \in Blockers : \A i \in 1..Len(targets[b]) :
            /\ ~tdead[targets[b][i]]
            /\ is_hostile_to(HostilityOf(b), HostilityOf(targets[b][i]))

\* C28: when search_targets ends, the Targets of every actor with a Range
\* hold the highest-priority eligible candidates (visible, hostile to the
\* actor, intersecting its range) in priority order (Hatred descending,
\* then entity descending): as many as max_targets allows, and every
\* eligible candidate left out ranks below every one included.
Eligible(a, e) ==
    visible[e] /\ is_hostile_to(HostilityOf(a), HostilityOf(e)) /\ InRange(a, e)
Outranks(x, y) ==
    IF hatred[x] # hatred[y] THEN hatred[x] > hatred[y] ELSE x > y
RangeSelection(a, T) ==
    LET eligible == {e \in TEntities : Eligible(a, e)}
    IN /\ \A i \in 1..Len(T) : T[i] \in eligible
       /\ \A i, j \in 1..Len(T) : i < j => Outranks(T[i], T[j])
       /\ Len(T) = IF Cardinality(eligible) < max_targets[a]
                   THEN Cardinality(eligible) ELSE max_targets[a]
       /\ \A e \in eligible :
             (\A i \in 1..Len(T) : T[i] # e)
                => \A i \in 1..Len(T) : Outranks(T[i], e)
C28_RangeSearchByPriority ==
    [][search_targets =>
          \A a \in TEntities : has_range[a] => RangeSelection(a, targets'[a])]_vars
\* search_targets has left out an eligible candidate with the higher entity
\* id because the one selected has the higher Hatred
C28_Witness ==
    /\ tphase = "sort_targets"
    /\ targeting_tree = TreeOrder(TEntities)
    /\ \E a \in TEntities, e \in TEntities :
          /\ has_range[a] /\ max_targets[a] = 1 /\ Len(targets[a]) = 1
          /\ Eligible(a, e) /\ Eligible(a, targets[a][1])
          /\ e > targets[a][1]
          /\ hatred[targets[a][1]] > hatred[e]

\* C29: when start_blocking engages a Blockable that was unblocked, exactly
\* one Blocker's blocking list gains it, that Blocker is its blocked_by, and
\* no Blocker earlier in the iteration order could have taken it (can
\* block, overlaps, spare capacity).
C29_FirstBlockerOnly ==
    [][start_blocking =>
          \A e \in Blockables :
             LET gained == {b \in Blockers :
                               InSeq(e, blocking'[b]) /\ ~InSeq(e, blocking[b])}
             IN (blocked_by[e] = None /\ gained # {}) =>
                   /\ gained = {blocked_by'[e]}
                   /\ \A i, j \in 1..Len(BlockerOrder) :
                         (i < j /\ BlockerOrder[j] = blocked_by'[e]) =>
                             ~(/\ can_block[BlockerOrder[i]]
                               /\ Overlaps(e, BlockerOrder[i])
                               /\ Len(blocking'[BlockerOrder[i]])
                                     < block_stat[BlockerOrder[i]])]_vars

\* C30: a cycle on standby whose finite interval stays the same reaches
\* elapsed 0 under ticks of positive delta unless standby is cleared, and
\* a tick of a cycle on standby with elapsed 0 leaves the cycle unchanged.
C30_StandbySettles ==
    /\ \A d \in 0..MaxInterval :
          (acycle.standby /\ acycle.timer.duration = d)
             ~> (acycle.timer.elapsed = 0 \/ ~acycle.standby
                    \/ acycle.timer.duration # d)
    /\ [][((TickPositive \/ TickZero) /\ acycle.standby /\ acycle.timer.elapsed = 0)
             => acycle' = acycle]_vars
\* a cycle that ran to its end on standby and was clamped to 0
C30_Witness ==
    /\ acycle.standby
    /\ acycle.timer.duration > 1
    /\ acycle.timer.elapsed = 0
    /\ acycle.timer.times_finished > 0

\* C31: set_interval(new) on a cycle whose interval old is positive and
\* differs from new sets elapsed' = elapsed * new / old (cut to the time
\* unit), so the phase fraction is kept and elapsed' <= new; a second
\* set_interval(new) changes nothing.
C31_IntervalRescale ==
    LET old == acycle.timer.duration
        new == ainterval
        once == set_interval(acycle, new)
    IN (old > 0 /\ old # new) =>
          /\ once.timer.duration = new
          /\ once.timer.elapsed * old <= acycle.timer.elapsed * new
          /\ acycle.timer.elapsed * new < (once.timer.elapsed + 1) * old
          /\ once.timer.elapsed <= new
          /\ set_interval(once, new) = once
\* tick_attack_cycle_timers is about to rescale a running cycle to another
\* finite interval, and the rescaled elapsed time is not 0
C31_Witness ==
    /\ aphase = "tick_attack_cycle_timers"
    /\ acycle.timer.duration \in 1..MaxInterval
    /\ ainterval \in 1..MaxInterval
    /\ ainterval # acycle.timer.duration
    /\ acycle.timer.elapsed > 0
    /\ set_interval(acycle, ainterval).timer.elapsed > 0

C33_BlockedStaysPut ==
    [][(navigation_steering /\ nav_blocked /\ ~nav_active)
          => (nav_pos' = nav_pos /\ waypoints' = waypoints)]_vars

\* C34: a run of reset_attack_cycles resets the AttackCycle of the
\* Blockable exactly when its blocked_by has changed since the previous
\* run: a change is followed by a reset (elapsed = 0), and no reset happens
\* without a change.
C34_ResetOnChange ==
    [][reset_attack_cycles =>
          /\ rc_value_changed => (rc_reset' /\ rc_elapsed' = 0)
          /\ ~rc_value_changed => (~rc_reset' /\ rc_elapsed' = rc_elapsed)]_vars

\* C35: for one navigation target the NavigationFinishEvent of the entity
\* is sent at most once until Nav::set_target is called again, also when
\* no path to the target was found.
C35_FinishOncePerTarget == finish_sent <= 1

\* C36: no actor's Targets contains the actor itself, whatever its
\* Hostility (Neutral and a missing component included).
C36_NoSelfTarget ==
    \A a \in TEntities : \A i \in 1..Len(targets[a]) : targets[a][i] # a

\* C37: a skill whose SkillLockoutTimer is only set by start_lockout_timer
\* has sent at most as many SkillDeactivationEvents as
\* SkillActivationEvents at every point of a run; in particular a
\* SkillDeactivationEvent is sent only after some SkillActivationEvent
\* (window_events = 0 exactly while none has been sent).
C37_DeactivationAfterActivation ==
    deactivation_sent => window_events > 0

\* C38: at the end of every tick (both blocking systems have run) every
\* entity of a Blocker's blocking list occurs in that list only once, so
\* that each list entry counts one distinct blockee against the capacity.
C38_BlockingListDistinct ==
    bphase = "start_blocking" =>
        \A b \in Blockers : \A i, j \in 1..Len(blocking[b]) :
            blocking[b][i] = blocking[b][j] => i = j

\* C39: Coordinates::from_local is the inverse of Coordinates::local: for
\* every Coordinates c and every height h, from_local(c.local(h)) = c.
C39_FromLocalInvertsLocal ==
    rt_back # NoCoord => rt_back = rt_c

\* C40: Health.max_hp > 0 in every reachable state, also after
\* detect_maxhp_changes has run with ComputedStat<MaxHp> at its minimum.
C40_MaxHpPositive ==
    max_hp > 0

====
